---- MODULE Spec2Model ----
(***************************************************************************)
(* A model of the AWS inventory and diagram generator.                     *)
(*                                                                         *)
(*   RegionSpec   collect_region_resources of main.py, one service family  *)
(*                per step, with the calls of the collectors that raise    *)
(*                drawn as an input of every step.                         *)
(*   Spec         main() of main.py: identity check, the loop over the     *)
(*                regions, CloudFront, the write of the document.          *)
(*   FairSpec     Spec with weak fairness of the next step (the run is     *)
(*                sequential and every step terminates).                   *)
(*   BatchSpec    the batched describe calls of aws_clients/ecs.py.        *)
(*   DiagramSpec  the VPC/resource correlation of the three generators.    *)
(*   NameMatchSpec, CategorizeSpec  the name match of ECS clusters and     *)
(*                categorize_ec2_instances of the two detailed generators. *)
(*   LayoutSpec   the detailed and the draw.io generator run twice on one  *)
(*                inventory.                                               *)
(*   K8sSpec, K8sFairSpec  collect_k8s_workloads.py and the K8sCollector.  *)
(*   SessionSpec  utils/aws_session.py.                                    *)
(*   OpsSpec      the operations issued against the provider.              *)
(*   LabelSpec, ContextSpec, GeneratorSpec, PodsSpec  format_label,        *)
(*                _get_context_for_cluster, DrawIOGenerator and the pod    *)
(*                loop of the collector, on drawn inputs.                  *)
(*   NodePodsSpec the pods of a node and null fields in the generators.    *)
(*   RowsSpec     the three generators on varying numbers of resources.    *)
(***************************************************************************)
EXTENDS Integers, Sequences, FiniteSets, TLC

VARIABLES
    pc,           \* main(): position of the run
    args,         \* main(): parsed command line (regions, services)
    cloud,        \* number of records every describe call finds
    broken,       \* regions whose session cannot create any client
    account_id,   \* main(): result of session.get_account_id()
    inventory,    \* main(): the inventory document under construction
    idx,          \* main(): index of the region loop
    started,      \* regions for which collection was started, in order
    cloudfront,   \* CloudFront collection: "not run", "collected" or "failed"
    output,       \* the files written by json.dump: none, or the document
    exit_status,  \* <<>> while the process runs, then its exit status
    rpc,          \* collect_region_resources: the family block reached
    region_data,  \* collect_region_resources: the dict under construction
    raised,       \* families whose except handler ran
    fetched,      \* what the fetches of the family just run had returned
    bpc,          \* ECSClient.describe_*: position of the batch loop
    op,           \* ECSClient.describe_*: which operation runs
    ids,          \* ECSClient.describe_*: the identifier list passed in
    bi,           \* ECSClient.describe_*: loop variable i
    calls,        \* ECSClient.describe_*: batches sent to the API so far
    all_results,  \* ECSClient.describe_*: accumulated responses
    dpc,          \* diagram generators: position
    inv_region,   \* diagram generators: the region entry read
    diagram,      \* diagram generators: the last diagram produced
    fpc,          \* a function of the generators called alone: position
    fin,          \* its arguments
    fout,         \* what its callers got back, by generator
    lpc,          \* generation of one VPC diagram, run again: position
    lin,          \* the inventory and workload documents read
    layouts,      \* the layouts written, by generator, in the order of the runs
    kpc,          \* collect_k8s_workloads.py main(): position
    k8s_clusters, \* main(): the clusters read from the inventory
    ki,           \* main(): index of the cluster loop
    all_workloads,  \* main(): the entries collected so far, by cluster name
    api_calls,    \* the list calls sent to each cluster, with their outcomes
    workloads_file,  \* the document written by json.dump
    spc,          \* one AWSSession object: "idle", or "live" once constructed
    aws_session,  \* AWSSession: role_arn, _session, _assumed_credentials
    sts_calls,    \* the outcomes of the assume_role calls sent to STS
    session_calls,  \* the calls of the methods, each with the credentials it used
    tpc,          \* a tool of the repository: position of its run
    tool_args,    \* the tool that runs and its command line
    issued        \* the operations sent to the control plane, in order

mainVars == <<pc, args, cloud, broken, account_id, inventory, idx, started,
              cloudfront, output, exit_status>>
regionVars == <<rpc, region_data, raised, fetched>>
batchVars == <<bpc, op, ids, bi, calls, all_results>>
diagramVars == <<dpc, inv_region, diagram>>
callVars == <<fpc, fin, fout>>
layoutVars == <<lpc, lin, layouts>>
k8sVars == <<kpc, k8s_clusters, ki, all_workloads, api_calls, workloads_file>>
sessionVars == <<spc, aws_session, sts_calls, session_calls>>
opsVars == <<tpc, tool_args, issued>>
toolVars == <<callVars, layoutVars, k8sVars, sessionVars, opsVars>>
\* what the calls of a function alone leave as it is
notCallVars ==
    <<mainVars, regionVars, batchVars, diagramVars, layoutVars, k8sVars, sessionVars,
      opsVars>>
\* what the generation of layouts leaves as it is
notLayoutVars ==
    <<mainVars, regionVars, batchVars, diagramVars, callVars, k8sVars, sessionVars,
      opsVars>>
\* what the collection of workloads leaves as it is
notK8sVars ==
    <<mainVars, regionVars, batchVars, diagramVars, callVars, layoutVars, sessionVars,
      opsVars>>
\* what the calls of one AWSSession leave as they are
notSessionVars ==
    <<mainVars, regionVars, batchVars, diagramVars, callVars, layoutVars, k8sVars,
      opsVars>>
\* what the operations of a tool leave as they are
notOpsVars ==
    <<mainVars, regionVars, batchVars, diagramVars, callVars, layoutVars, k8sVars,
      sessionVars>>
vars == <<mainVars, regionVars, batchVars, diagramVars, toolVars>>

----------------------------------------------------------------------------
(* Bounds *)

MaxRecords == 1      \* records a describe call returns, at most
MaxFailing == 1      \* API calls that raise in one region of a full run
MaxIds == 250        \* length of an identifier list passed to a batch call

----------------------------------------------------------------------------
(* Generic helpers *)

Min(a, b) == IF a < b THEN a ELSE b

\* d[k] = v for a Python dict d (insert or overwrite)
Put(d, k, v) == [x \in (DOMAIN d) \cup {k} |-> IF x = k THEN v ELSE d[x]]

\* d.update(e)
Update(d, e) ==
    [x \in (DOMAIN d) \cup (DOMAIN e) |-> IF x \in DOMAIN e THEN e[x] ELSE d[x]]

\* the empty dict
EmptyDict == [x \in {} |-> 0]

\* the subsets of S of at most k elements
RECURSIVE SubsetsUpTo(_, _)
SubsetsUpTo(S, k) ==
    IF k = 0 THEN {{}}
    ELSE LET P == SubsetsUpTo(S, k - 1) IN P \cup {T \cup {x} : T \in P, x \in S}

\* the n records of one kind that a describe call returns
Recs(kind, n) == [i \in 1..n |-> <<kind, i>>]

----------------------------------------------------------------------------
(* The collectors.  A collector is a client construction followed by a     *)
(* sequence of fetches; F is the set of API calls that raise when made.    *)

\* --services: "all" or one of the family's names selects the family
Selected(services, names) == "all" \in services \/ (services \cap names) # {}

\* One fetch of a collector: the calls it makes, the sub-collections it
\* fills (name -> kind of record), and whether the client wrapper catches
\* the exception of the call and returns an empty list instead.
Fetch(fcalls, subs, swallowed) ==
    [calls |-> fcalls, subs |-> subs, swallowed |-> swallowed]

\* index of the first fetch whose exception propagates, 0 when none does
FirstRaise(fetches, F) ==
    LET bad == {i \in 1..Len(fetches) :
                   ~fetches[i].swallowed /\ (fetches[i].calls \cap F) # {}}
    IN IF bad = {} THEN 0 ELSE CHOOSE i \in bad : \A j \in bad : i <= j

\* A collector run: raised (an exception left collect()), value (the dict
\* collect() returns when it does not raise) and fetched (the sub-collections
\* whose fetch had returned when collect() ended, with their records).
RunCollector(clients, fetches, n, F) ==
    LET clientFails == (clients \cap F) # {}
        fr == FirstRaise(fetches, F)
        upto == IF clientFails THEN 0
                ELSE IF fr = 0 THEN Len(fetches) ELSE fr - 1
        ok(i) == (fetches[i].calls \cap F) = {}
        subsOf(I) == UNION {DOMAIN fetches[i].subs : i \in I}
        recs(k) == LET i == CHOOSE j \in 1..Len(fetches) : k \in DOMAIN fetches[j].subs
                   IN IF ok(i) THEN Recs(fetches[i].subs[k], n) ELSE <<>>
    IN [raised |-> clientFails \/ fr # 0,
        value |-> [k \in subsOf(1..Len(fetches)) |-> recs(k)],
        fetched |-> [k \in subsOf({i \in 1..upto : ok(i)}) |-> recs(k)]]

\* calls made once per record found, so only when there are records
PerRecord(n, names) == IF n > 0 THEN names ELSE {}

\* collectors/vpc_collector.py: VPCCollector.collect
VPCCollector_collect(n, F) ==
    RunCollector({"ec2.client"},
        <<Fetch({"describe_vpcs"} \cup PerRecord(n, {"describe_subnets"}),
                [vpcs |-> "vpc"], FALSE)>>, n, F)

\* collectors/vpc_collector.py: VPCCollector.collect_ec2_instances
VPCCollector_collect_ec2_instances(n, F) ==
    RunCollector({},
        <<Fetch({"describe_instances"}, [ec2_instances |-> "instance"], FALSE)>>,
        n, F)

\* collectors/ecs_collector.py: ECSCollector.collect
ECSCollector_collect(n, F) ==
    RunCollector({"ecs.client"},
        <<Fetch({"list_clusters"}
                \cup PerRecord(n, {"describe_clusters", "list_services",
                                   "describe_services"}),
                [ecs_clusters |-> "ecs_cluster"], FALSE)>>, n, F)

\* collectors/eks_collector.py: EKSCollector.collect
EKSCollector_collect(n, F) ==
    RunCollector({"eks.client"},
        <<Fetch({"eks.list_clusters"}
                \cup PerRecord(n, {"describe_cluster", "list_nodegroups"}),
                [eks_clusters |-> "eks_cluster"], FALSE)>>, n, F)

\* collectors/rds_collector.py: RDSCollector.collect
RDSCollector_collect(n, F) ==
    RunCollector({"rds.client"},
        <<Fetch({"describe_db_instances"}, [instances |-> "db_instance"], FALSE),
          Fetch({"describe_db_clusters"}, [clusters |-> "db_cluster"], FALSE)>>,
        n, F)

\* collectors/redis_collector.py: RedisCollector.collect; the client catches
\* only ClientError of describe_serverless_caches
RedisCollector_collect(n, F) ==
    RunCollector({"elasticache.client"},
        <<Fetch({"describe_cache_clusters"}, [clusters |-> "cache_cluster"], FALSE),
          Fetch({"describe_replication_groups"},
                [replication_groups |-> "replication_group"], FALSE),
          Fetch({"describe_serverless_caches.ClientError"},
                [serverless_caches |-> "serverless_cache"], TRUE),
          Fetch({"describe_serverless_caches.other"}, EmptyDict, FALSE)>>, n, F)

\* collectors/elb_collector.py: ELBCollector.collect
ELBCollector_collect(n, F) ==
    RunCollector({"elbv2.client", "elb.client"},
        <<Fetch({"describe_load_balancers"} \cup PerRecord(n, {"describe_listeners"}),
                [application_load_balancers |-> "alb",
                 network_load_balancers |-> "nlb"], FALSE),
          Fetch({"describe_classic_load_balancers"},
                [classic_load_balancers |-> "clb"], FALSE),
          Fetch({"describe_target_groups"}, [target_groups |-> "target_group"],
                FALSE)>>, n, F)

\* collectors/elasticbeanstalk_collector.py: ElasticBeanstalkCollector.collect;
\* describe_environment_resources catches its own exception, and the
\* environment record is kept with empty resources
ElasticBeanstalkCollector_collect(n, F) ==
    LET r == RunCollector({"elasticbeanstalk.client"},
                 <<Fetch({"describe_applications"}, [applications |-> "application"],
                         FALSE),
                   Fetch({"describe_environments"}, [environments |-> "environment"],
                         FALSE)>>, n, F)
        res == IF "describe_environment_resources" \in F THEN "no_resources"
               ELSE "resources"
        env(v) == [k \in DOMAIN v |->
                     IF k = "environments"
                     THEN [i \in 1..Len(v[k]) |-> <<v[k][i][1], v[k][i][2], res>>]
                     ELSE v[k]]
    IN [raised |-> r.raised, value |-> env(r.value), fetched |-> env(r.fetched)]

\* collectors/redshift_collector.py: RedshiftCollector.collect; the client
\* catches every exception of the two serverless list calls
RedshiftCollector_collect(n, F) ==
    RunCollector({"redshift.client", "redshift-serverless.client"},
        <<Fetch({"redshift.describe_clusters"}, [clusters |-> "redshift_cluster"],
                FALSE),
          Fetch({"list_workgroups"}, [serverless_workgroups |-> "workgroup"], TRUE),
          Fetch({"list_namespaces"}, [serverless_namespaces |-> "namespace"], TRUE)>>,
        n, F)

\* collectors/cloudfront_collector.py: CloudFrontCollector.collect; the client
\* catches every exception of list_distributions
CloudFrontCollector_collect(n, F) ==
    RunCollector({"cloudfront.client"},
        <<Fetch({"list_distributions"}, [distributions |-> "distribution"], TRUE)>>,
        n, F)

\* every API call of the model
ClientCalls ==
    {"ec2.client", "ecs.client", "eks.client", "rds.client", "elasticache.client",
     "elbv2.client", "elb.client", "elasticbeanstalk.client", "redshift.client",
     "redshift-serverless.client"}

FetchCalls ==
    {"describe_vpcs", "describe_subnets", "describe_instances", "list_clusters",
     "describe_clusters", "list_services", "describe_services", "eks.list_clusters",
     "describe_cluster", "list_nodegroups", "describe_db_instances",
     "describe_db_clusters", "describe_cache_clusters",
     "describe_replication_groups", "describe_serverless_caches.ClientError",
     "describe_serverless_caches.other", "describe_load_balancers",
     "describe_listeners", "describe_classic_load_balancers",
     "describe_target_groups", "describe_applications", "describe_environments",
     "describe_environment_resources", "redshift.describe_clusters",
     "list_workgroups", "list_namespaces"}

----------------------------------------------------------------------------
(* collect_region_resources (main.py): one try/except block per family.   *)
(* A block yields the new region_data (rd), whether its handler ran        *)
(* (raised) and the sub-collections fetched before the block ended, by     *)
(* their path in region_data.                                              *)

\* sub-collections of a collector that fills top-level keys
Flat(f) == [p \in {<<k>> : k \in DOMAIN f} |-> f[p[1]]]

\* sub-collections of a collector whose dict is stored under one key
Under(key, f) == [p \in {<<key, k>> : k \in DOMAIN f} |-> f[p[2]]]

\* the value of region_data at a path
At(rd, p) == IF Len(p) = 1 THEN rd[p[1]] ELSE rd[p[1]][p[2]]

\* a block whose family is not selected
Skipped(rd) == [rd |-> rd, raised |-> FALSE, fetched |-> EmptyDict]

\* the empty defaults of the except handlers
RdsDefault == [instances |-> <<>>, clusters |-> <<>>]
ElastiCacheDefault ==
    [clusters |-> <<>>, replication_groups |-> <<>>, serverless_caches |-> <<>>]
LoadBalancersDefault ==
    [application_load_balancers |-> <<>>, network_load_balancers |-> <<>>,
     classic_load_balancers |-> <<>>, target_groups |-> <<>>]
ElasticBeanstalkDefault == [applications |-> <<>>, environments |-> <<>>]
RedshiftDefault ==
    [clusters |-> <<>>, serverless_workgroups |-> <<>>, serverless_namespaces |-> <<>>]
CloudFrontDefault == [distributions |-> <<>>]

\* a block that stores the dict a collector returns under one key
DictBlock(rd, key, c, default) ==
    [rd |-> Put(rd, key, IF c.raised THEN default ELSE c.value),
     raised |-> c.raised,
     fetched |-> Under(key, c.fetched)]

\* a block that stores the list a collector returns under one key
ListBlock(rd, key, c) ==
    [rd |-> Put(rd, key, IF c.raised THEN <<>> ELSE c.value[key]),
     raised |-> c.raised,
     fetched |-> Flat(c.fetched)]

\* main.py 94-106: VPC and EC2
collect_vpc_ec2(rd, services, n, F) ==
    IF ~Selected(services, {"vpc", "ec2"}) THEN Skipped(rd)
    ELSE LET v == VPCCollector_collect(n, F)
             ec2 == Selected(services, {"ec2"}) /\ ~v.raised
             e == VPCCollector_collect_ec2_instances(n, F)
             r == v.raised \/ (ec2 /\ e.raised)
             got == IF ec2 THEN Update(v.fetched, e.fetched) ELSE v.fetched
         IN [rd |-> IF r THEN Put(Put(rd, "vpcs", <<>>), "ec2_instances", <<>>)
                    ELSE IF ec2
                         THEN Put(Put(rd, "vpcs", v.value.vpcs),
                                  "ec2_instances", e.value.ec2_instances)
                         ELSE Put(rd, "vpcs", v.value.vpcs),
             raised |-> r,
             fetched |-> Flat(got)]

\* collect_ecs with a handler that also resets the VPC list
collect_ecs_resetting_vpcs(rd, services, n, F) ==
    IF ~Selected(services, {"ecs"}) THEN Skipped(rd)
    ELSE LET b == ListBlock(rd, "ecs_clusters", ECSCollector_collect(n, F))
         IN IF b.raised THEN [b EXCEPT !.rd = Put(b.rd, "vpcs", <<>>)] ELSE b

\* main.py 108-116: ECS
collect_ecs(rd, services, n, F) ==
    IF ~Selected(services, {"ecs"}) THEN Skipped(rd)
    ELSE ListBlock(rd, "ecs_clusters", ECSCollector_collect(n, F))

\* main.py 118-126: EKS
collect_eks(rd, services, n, F) ==
    IF ~Selected(services, {"eks"}) THEN Skipped(rd)
    ELSE ListBlock(rd, "eks_clusters", EKSCollector_collect(n, F))

\* collect_rds with a handler that only logs
collect_rds_without_default(rd, services, n, F) ==
    IF ~Selected(services, {"rds"}) THEN Skipped(rd)
    ELSE LET b == DictBlock(rd, "rds", RDSCollector_collect(n, F), RdsDefault)
         IN IF b.raised THEN [b EXCEPT !.rd = rd] ELSE b

\* main.py 128-135: RDS
collect_rds(rd, services, n, F) ==
    IF ~Selected(services, {"rds"}) THEN Skipped(rd)
    ELSE DictBlock(rd, "rds", RDSCollector_collect(n, F), RdsDefault)

\* main.py 137-148: ElastiCache
collect_elasticache(rd, services, n, F) ==
    IF ~Selected(services, {"elasticache"}) THEN Skipped(rd)
    ELSE DictBlock(rd, "elasticache", RedisCollector_collect(n, F),
                   ElastiCacheDefault)

\* main.py 150-162: ELB
collect_elb(rd, services, n, F) ==
    IF ~Selected(services, {"elb"}) THEN Skipped(rd)
    ELSE DictBlock(rd, "load_balancers", ELBCollector_collect(n, F),
                   LoadBalancersDefault)

\* main.py 164-174: Elastic Beanstalk
collect_elasticbeanstalk(rd, services, n, F) ==
    IF ~Selected(services, {"elasticbeanstalk"}) THEN Skipped(rd)
    ELSE DictBlock(rd, "elasticbeanstalk", ElasticBeanstalkCollector_collect(n, F),
                   ElasticBeanstalkDefault)

\* main.py 176-187: Redshift
collect_redshift(rd, services, n, F) ==
    IF ~Selected(services, {"redshift"}) THEN Skipped(rd)
    ELSE DictBlock(rd, "redshift", RedshiftCollector_collect(n, F), RedshiftDefault)

\* the blocks in the order of the code
Families ==
    <<"vpc_ec2", "ecs", "eks", "rds", "elasticache", "elb", "elasticbeanstalk",
      "redshift">>

\* the block of one family
Block(f, rd, services, n, F) ==
    CASE f = "vpc_ec2" -> collect_vpc_ec2(rd, services, n, F)
      [] f = "ecs" -> collect_ecs(rd, services, n, F)
      [] f = "eks" -> collect_eks(rd, services, n, F)
      [] f = "rds" -> collect_rds(rd, services, n, F)
      [] f = "elasticache" -> collect_elasticache(rd, services, n, F)
      [] f = "elb" -> collect_elb(rd, services, n, F)
      [] f = "elasticbeanstalk" -> collect_elasticbeanstalk(rd, services, n, F)
      [] f = "redshift" -> collect_redshift(rd, services, n, F)

\* the --services names that select a family, and the keys its block writes
FamilyNames(f) == IF f = "vpc_ec2" THEN {"vpc", "ec2"} ELSE {f}
FamilyKeys(f) ==
    CASE f = "vpc_ec2" -> {"vpcs", "ec2_instances"}
      [] f = "ecs" -> {"ecs_clusters"}
      [] f = "eks" -> {"eks_clusters"}
      [] f = "elb" -> {"load_balancers"}
      [] OTHER -> {f}

\* the API calls of a family
FamilyCalls(f) ==
    CASE f = "vpc_ec2" ->
           {"ec2.client", "describe_vpcs", "describe_subnets", "describe_instances"}
      [] f = "ecs" ->
           {"ecs.client", "list_clusters", "describe_clusters", "list_services",
            "describe_services"}
      [] f = "eks" ->
           {"eks.client", "eks.list_clusters", "describe_cluster", "list_nodegroups"}
      [] f = "rds" -> {"rds.client", "describe_db_instances", "describe_db_clusters"}
      [] f = "elasticache" ->
           {"elasticache.client", "describe_cache_clusters",
            "describe_replication_groups", "describe_serverless_caches.ClientError",
            "describe_serverless_caches.other"}
      [] f = "elb" ->
           {"elbv2.client", "elb.client", "describe_load_balancers",
            "describe_listeners", "describe_classic_load_balancers",
            "describe_target_groups"}
      [] f = "elasticbeanstalk" ->
           {"elasticbeanstalk.client", "describe_applications",
            "describe_environments", "describe_environment_resources"}
      [] f = "redshift" ->
           {"redshift.client", "redshift-serverless.client",
            "redshift.describe_clusters", "list_workgroups", "list_namespaces"}

\* main.py 85-92: the dict collect_region_resources starts from
NewRegionData(region) == [region |-> region, collected_at |-> "now"]

\* main.py 79-190: collect_region_resources, all blocks in order
RECURSIVE RunBlocks(_, _, _, _, _)
RunBlocks(i, rd, services, n, F) ==
    IF i > Len(Families) THEN rd
    ELSE RunBlocks(i + 1, Block(Families[i], rd, services, n, F).rd, services, n, F)

collect_region_resources(region, services, n, F) ==
    RunBlocks(1, NewRegionData(region), services, n, F)

----------------------------------------------------------------------------
(* Values of the variables of the parts of the program that are not run.   *)

NoFile == <<>>
Running == <<>>

MainIdle ==
    /\ pc = "idle" /\ broken = {} /\ account_id = "" /\ inventory = EmptyDict
    /\ idx = 0 /\ started = <<>> /\ cloudfront = "not run" /\ output = NoFile
    /\ exit_status = Running

RegionIdle ==
    rpc = "idle" /\ region_data = EmptyDict /\ raised = {} /\ fetched = EmptyDict

BatchIdle ==
    /\ bpc = "idle" /\ op = "none" /\ ids = <<>> /\ bi = 0 /\ calls = <<>>
    /\ all_results = <<>>

DiagramIdle == dpc = "idle" /\ inv_region = EmptyDict /\ diagram = EmptyDict

CallIdle == fpc = "idle" /\ fin = EmptyDict /\ fout = EmptyDict

LayoutIdle == lpc = "idle" /\ lin = EmptyDict /\ layouts = EmptyDict

K8sIdle ==
    /\ kpc = "idle" /\ k8s_clusters = <<>> /\ ki = 0 /\ all_workloads = EmptyDict
    /\ api_calls = <<>> /\ workloads_file = EmptyDict

SessionIdle ==
    spc = "idle" /\ aws_session = EmptyDict /\ sts_calls = <<>> /\ session_calls = <<>>

OpsIdle == tpc = "idle" /\ tool_args = EmptyDict /\ issued = <<>>

ToolsIdle == CallIdle /\ LayoutIdle /\ K8sIdle /\ SessionIdle /\ OpsIdle

\* nothing runs but one of the tools
GeneratorsIdle == MainIdle /\ RegionIdle /\ BatchIdle /\ DiagramIdle
OnlyCalls == GeneratorsIdle /\ LayoutIdle /\ K8sIdle /\ SessionIdle /\ OpsIdle
OnlyLayouts == GeneratorsIdle /\ CallIdle /\ K8sIdle /\ SessionIdle /\ OpsIdle
OnlyK8s == GeneratorsIdle /\ CallIdle /\ LayoutIdle /\ SessionIdle /\ OpsIdle
OnlySession == GeneratorsIdle /\ CallIdle /\ LayoutIdle /\ K8sIdle /\ OpsIdle
OnlyOps == GeneratorsIdle /\ CallIdle /\ LayoutIdle /\ K8sIdle /\ SessionIdle

NoArgs == [regions |-> <<>>, services |-> {}]

----------------------------------------------------------------------------
(* RegionSpec: collect_region_resources, one family block per step.        *)

\* region names of the runs
Regions == {"r1", "r2"}

\* values of --services of the runs (main.py 62 lists the choices)
ServiceSelections ==
    {{"all"}, {"vpc"}, {"ec2"}, {"rds", "elb", "cloudfront"},
     {"ecs", "eks", "elasticache"}, {"elasticbeanstalk", "redshift"},
     {"cloudfront"}}

RegionInit ==
    /\ args \in [regions : {<<r>> : r \in Regions}, services : ServiceSelections]
    /\ cloud \in 0..MaxRecords
    /\ rpc = "start" /\ region_data = EmptyDict /\ raised = {}
    /\ fetched = EmptyDict
    /\ MainIdle /\ BatchIdle /\ DiagramIdle /\ ToolsIdle

\* main.py 85-92
RegionBegin ==
    /\ rpc = "start"
    /\ region_data' = NewRegionData(args.regions[1])
    /\ rpc' = Families[1]
    /\ UNCHANGED <<raised, fetched, mainVars, batchVars, diagramVars, toolVars>>

\* one family block; the calls that raise are an input of the step
RunBlock(f, next) ==
    /\ rpc = f
    /\ \E F \in SUBSET FamilyCalls(f) :
         LET b == Block(f, region_data, args.services, cloud, F)
         IN /\ region_data' = b.rd
            /\ raised' = IF b.raised THEN raised \cup {f} ELSE raised
            /\ fetched' = b.fetched
    /\ rpc' = next
    /\ UNCHANGED <<mainVars, batchVars, diagramVars, toolVars>>

RegionVpcEc2 == RunBlock("vpc_ec2", "ecs")
RegionEcs == RunBlock("ecs", "eks")
RegionEks == RunBlock("eks", "rds")
RegionRds == RunBlock("rds", "elasticache")
RegionElastiCache == RunBlock("elasticache", "elb")
RegionElb == RunBlock("elb", "elasticbeanstalk")
RegionElasticBeanstalk == RunBlock("elasticbeanstalk", "redshift")
RegionRedshift == RunBlock("redshift", "return")

\* main.py 189-190
RegionReturn ==
    /\ rpc = "return"
    /\ rpc' = "returned"
    /\ UNCHANGED <<region_data, raised, fetched, mainVars, batchVars, diagramVars, toolVars>>

RegionNext ==
    \/ RegionBegin
    \/ RegionVpcEc2
    \/ RegionEcs
    \/ RegionEks
    \/ RegionRds
    \/ RegionElastiCache
    \/ RegionElb
    \/ RegionElasticBeanstalk
    \/ RegionRedshift
    \/ RegionReturn

RegionSpec == RegionInit /\ [][RegionNext]_vars

----------------------------------------------------------------------------
(* Properties of collect_region_resources                                  *)

\* the empty default of the expected shape of a key of the region entry
EmptyDefault(k) ==
    CASE k = "rds" -> RdsDefault
      [] k = "elasticache" -> ElastiCacheDefault
      [] k = "load_balancers" -> LoadBalancersDefault
      [] k = "elasticbeanstalk" -> ElasticBeanstalkDefault
      [] k = "redshift" -> RedshiftDefault
      [] OTHER -> <<>>

\* the keys a selected family owes the region entry: the instance list belongs
\* to the vpc/ec2 family only when instances were asked for
OwedKeys(f, services) ==
    IF f = "vpc_ec2"
    THEN {"vpcs"} \cup (IF Selected(services, {"ec2"}) THEN {"ec2_instances"} ELSE {})
    ELSE FamilyKeys(f)

\* C1: whatever collectors raise, the region entry that collect_region_resources
\* returns has the key of every selected family, and the keys of a family
\* whose collector raised hold the empty default of their shape.
C1_SelectedFamilyKeyPresent ==
    rpc = "returned" =>
        \A i \in DOMAIN Families :
            LET f == Families[i]
            IN Selected(args.services, FamilyNames(f)) =>
                 /\ OwedKeys(f, args.services) \subseteq DOMAIN region_data
                 /\ f \in raised =>
                      \A k \in FamilyKeys(f) :
                          /\ k \in DOMAIN region_data
                          /\ region_data[k] = EmptyDefault(k)

\* C1 witness: a returned entry where RDS raised and got its default while the
\* ECS family kept its records
C1_Witness ==
    /\ rpc = "returned" /\ "all" \in args.services
    /\ "rds" \in raised /\ region_data["rds"] = RdsDefault
    /\ "ecs" \notin raised /\ Len(region_data["ecs_clusters"]) > 0

----------------------------------------------------------------------------
(* Spec: main() of main.py                                                 *)

\* values of --regions of the runs, a repeated region included
RegionLists ==
    {<<r>> : r \in Regions} \cup {<<r, q>> : r \in Regions, q \in Regions}

Range(seq) == {seq[i] : i \in DOMAIN seq}

\* The calls that raise while one region is collected.  The session of a
\* region is created lazily (aws_session.py 70-94): a region whose session
\* cannot authenticate raises at every client creation.
FailureSets(isBroken) ==
    IF isBroken THEN {ClientCalls}
    ELSE SubsetsUpTo(ClientCalls \cup FetchCalls, MaxFailing)

\* the region entries collect_region_resources can return, by its arguments
\* and by whether the session of the region is broken
RegionOutcomes ==
    UNION {{[region |-> r, services |-> sv, records |-> n, broken |-> b,
             region_data |-> collect_region_resources(r, sv, n, F)] :
                r \in Regions, sv \in ServiceSelections, n \in 0..MaxRecords,
                F \in FailureSets(b)} : b \in BOOLEAN}

\* main.py 223-233
new_inventory(account) ==
    [metadata |-> [account_id |-> account, generated_at |-> "now",
                   regions_scanned |-> args.regions,
                   services_collected |-> args.services, role_arn |-> "None"],
     regions |-> EmptyDict]

Init ==
    /\ pc = "start"
    /\ args \in [regions : RegionLists, services : ServiceSelections]
    /\ cloud \in 0..MaxRecords
    /\ broken \in SUBSET Range(args.regions)
    /\ account_id = "" /\ inventory = EmptyDict /\ idx = 0 /\ started = <<>>
    /\ cloudfront = "not run" /\ output = NoFile /\ exit_status = Running
    /\ RegionIdle /\ BatchIdle /\ DiagramIdle /\ ToolsIdle

\* main.py 215-217, 223-233: the identity check succeeds
GetAccountId ==
    /\ pc = "start"
    /\ account_id' = "123456789012"
    /\ inventory' = new_inventory(account_id')
    /\ idx' = 1
    /\ pc' = "regions"
    /\ UNCHANGED <<args, cloud, broken, started, cloudfront, output, exit_status,
                   regionVars, batchVars, diagramVars, toolVars>>

\* the identity check fails and the run goes on with no account id
GetAccountIdFailsAndContinues ==
    /\ pc = "start"
    /\ inventory' = new_inventory(account_id)
    /\ idx' = 1
    /\ pc' = "regions"
    /\ UNCHANGED <<args, cloud, broken, account_id, started, cloudfront, output,
                   exit_status, regionVars, batchVars, diagramVars, toolVars>>

\* main.py 218-221: the identity check raises, sys.exit(1)
GetAccountIdFails ==
    /\ pc = "start"
    /\ exit_status' = <<1>>
    /\ pc' = "exit"
    /\ UNCHANGED <<args, cloud, broken, account_id, inventory, idx, started,
                   cloudfront, output, regionVars, batchVars, diagramVars, toolVars>>

\* the position after the body of the region loop
AfterRegion == IF idx = Len(args.regions) THEN "cloudfront" ELSE "regions"

\* main.py 236-249: one iteration of the region loop
CollectRegion ==
    /\ pc = "regions"
    /\ LET region == args.regions[idx]
       IN /\ started' = Append(started, region)
          /\ \E o \in RegionOutcomes :
               /\ o.region = region /\ o.services = args.services
               /\ o.records = cloud /\ o.broken = (region \in broken)
               /\ inventory' = [inventory EXCEPT !.regions =
                                   Put(@, region, o.region_data)]
    /\ idx' = idx + 1
    /\ pc' = AfterRegion
    /\ UNCHANGED <<args, cloud, broken, account_id, cloudfront, output, exit_status,
                   regionVars, batchVars, diagramVars, toolVars>>

\* an error entry that keeps a resource key
region_error_entry_with_vpcs(region) ==
    [region |-> region, error |-> "error", vpcs |-> <<>>]

\* main.py 252-255: the entry the handler of the loop body writes
region_error_entry(region) == [region |-> region, error |-> "error"]

\* an exception of a region ends the run
CollectRegionFailsAndExits ==
    /\ pc = "regions"
    /\ started' = Append(started, args.regions[idx])
    /\ exit_status' = <<1>>
    /\ pc' = "exit"
    /\ UNCHANGED <<args, cloud, broken, account_id, inventory, idx, cloudfront,
                   output, regionVars, batchVars, diagramVars, toolVars>>

\* main.py 250-255: one iteration of the region loop in which an exception
\* leaves collect_region_resources.  Every family block catches Exception, so
\* this is an exception raised outside the blocks or inside a handler (a
\* MemoryError, say); the region data built so far is dropped.
CollectRegionFails ==
    /\ pc = "regions"
    /\ LET region == args.regions[idx]
       IN /\ started' = Append(started, region)
          /\ inventory' =
                 [inventory EXCEPT !.regions = Put(@, region, region_error_entry(region))]
    /\ idx' = idx + 1
    /\ pc' = AfterRegion
    /\ UNCHANGED <<args, cloud, broken, account_id, cloudfront, output, exit_status,
                   regionVars, batchVars, diagramVars, toolVars>>

\* main.py 257-272: CloudFront, collected from a session of its own
CollectCloudFront ==
    /\ pc = "cloudfront"
    /\ IF Selected(args.services, {"cloudfront"})
       THEN \E F \in SUBSET {"cloudfront.client", "list_distributions"} :
              LET c == CloudFrontCollector_collect(cloud, F)
              IN /\ inventory' = Put(inventory, "cloudfront",
                                     IF c.raised THEN CloudFrontDefault ELSE c.value)
                 /\ cloudfront' = IF c.raised \/ F # {} THEN "failed" ELSE "collected"
       ELSE UNCHANGED <<inventory, cloudfront>>
    /\ pc' = "write"
    /\ UNCHANGED <<args, cloud, broken, account_id, idx, started, output, exit_status,
                   regionVars, batchVars, diagramVars, toolVars>>

\* main.py 274-281 and the end of main(): the document is written, exit 0
Write ==
    /\ pc = "write"
    /\ output' = <<inventory>>
    /\ exit_status' = <<0>>
    /\ pc' = "done"
    /\ UNCHANGED <<args, cloud, broken, account_id, inventory, idx, started,
                   cloudfront, regionVars, batchVars, diagramVars, toolVars>>

Next ==
    \/ GetAccountId
    \/ GetAccountIdFails
    \/ CollectRegion
    \/ CollectRegionFails
    \/ CollectCloudFront
    \/ Write

Spec == Init /\ [][Next]_vars

\* main() is one sequential thread and every step of it returns: whenever a
\* step is possible, one is taken
FairSpec == Spec /\ WF_vars(Next)

----------------------------------------------------------------------------
(* Properties of main()                                                    *)

\* the keys of a region entry that hold resource collections
ResourceKeys == UNION {FamilyKeys(Families[i]) : i \in DOMAIN Families}

\* the inventory exists once the identity check has succeeded
HasInventory == pc \in {"regions", "cloudfront", "write", "done"}

\* C2 as stated: the entry of a region whose session cannot create any client
\* is {region, error}.
C2_BrokenRegionIsErrorEntry ==
    HasInventory =>
        \A r \in broken \cap DOMAIN inventory.regions :
            DOMAIN inventory.regions[r] = {"region", "error"}

\* C3: an entry of the regions map with an error key has no resource
\* collection, and an entry with a resource collection has no error key; the
\* same holds of the document written.
C3_ErrorOrResources ==
    LET disjoint(regions) ==
            \A r \in DOMAIN regions :
                "error" \in DOMAIN regions[r] =>
                    (DOMAIN regions[r]) \cap ResourceKeys = {}
    IN /\ HasInventory => disjoint(inventory.regions)
       /\ output # NoFile => disjoint(output[1].regions)

\* C3 witness: a written document with an error entry and an entry that holds
\* records
C3_Witness ==
    /\ pc = "done"
    /\ \E r, q \in DOMAIN output[1].regions :
         /\ "error" \in DOMAIN output[1].regions[r]
         /\ "vpcs" \in DOMAIN output[1].regions[q]
         /\ Len(output[1].regions[q]["vpcs"]) > 0

\* C4: when the identity check is over and gave no account id, the process
\* has exited with a non-zero status, no region collection and no CloudFront
\* collection was started and no file is written.
C4_IdentityFailureAborts ==
    (pc # "start" /\ account_id = "") =>
        /\ pc = "exit"
        /\ exit_status # Running /\ exit_status[1] # 0
        /\ started = <<>>
        /\ cloudfront = "not run"
        /\ output = NoFile

\* C4 witness: the run after a failed identity check
C4_Witness ==
    pc = "exit" /\ account_id = "" /\ exit_status = <<1>> /\ Len(args.regions) = 2

\* the document written has metadata, one entry per requested region, and
\* the cloudfront key exactly when CloudFront was selected, empty if it failed
WrittenDocument ==
    /\ output # NoFile
    /\ LET doc == output[1]
       IN /\ {"metadata", "regions"} \subseteq DOMAIN doc
          /\ DOMAIN doc.regions = Range(args.regions)
          /\ \A r \in DOMAIN doc.regions : doc.regions[r].region = r
          /\ "cloudfront" \in DOMAIN doc <=> Selected(args.services, {"cloudfront"})
          /\ "cloudfront" \in DOMAIN doc => DOMAIN doc["cloudfront"] = {"distributions"}
          /\ cloudfront = "failed" => doc["cloudfront"] = CloudFrontDefault

----------------------------------------------------------------------------
(* BatchSpec: the batched describe calls of ECSClient (aws_clients/ecs.py) *)

BatchOps == {"describe_clusters", "describe_services", "describe_tasks"}

\* the step of range(0, len(arns), step) and the width of the slice,
\* ecs.py 34-35, 58-59, 83-84
BatchStep(o) == IF o = "describe_services" THEN 10 ELSE 100

\* lst[i:j] of Python for 0 <= i <= j
Slice(lst, i, j) == SubSeq(lst, i + 1, Min(j, Len(lst)))

\* a slice one identifier too wide
BatchTooWide(lst, i, o) == Slice(lst, i, i + BatchStep(o) + 1)

\* a slice that starts one identifier late
BatchFromSecond(lst, i, o) == Slice(lst, i + 1, i + BatchStep(o))

\* ecs.py 35, 59, 84: batch = arns[i:i + step]
Batch(lst, i, o) == Slice(lst, i, i + BatchStep(o))

\* the records of a response: one description per identifier sent
Describe(batch) == [j \in DOMAIN batch |-> <<"described", batch[j]>>]

BatchInit ==
    /\ op \in BatchOps
    /\ \E n \in 0..MaxIds : ids = [k \in 1..n |-> k]
    /\ bpc = "entry" /\ bi = 0 /\ calls = <<>> /\ all_results = <<>>
    /\ args = NoArgs /\ cloud = 0
    /\ MainIdle /\ RegionIdle /\ DiagramIdle /\ ToolsIdle

\* ecs.py 30-31, 54-55, 79-80: an empty list returns at once
BatchReturnEmpty ==
    /\ bpc = "entry" /\ ids = <<>>
    /\ bpc' = "returned"
    /\ UNCHANGED <<op, ids, bi, calls, all_results, mainVars, regionVars, diagramVars, toolVars>>

\* ecs.py 33-34, 57-58, 82-83: the loop starts at 0
BatchEnter ==
    /\ bpc = "entry" /\ ids # <<>>
    /\ bi' = 0 /\ all_results' = <<>>
    /\ bpc' = "loop"
    /\ UNCHANGED <<op, ids, calls, mainVars, regionVars, diagramVars, toolVars>>

\* ecs.py 35-41, 59-66, 84-91: one iteration, one API call
BatchCall ==
    /\ bpc = "loop" /\ bi < Len(ids)
    /\ LET batch == Batch(ids, bi, op)
       IN /\ calls' = Append(calls, batch)
          /\ all_results' = all_results \o Describe(batch)
    /\ bi' = bi + BatchStep(op)
    /\ UNCHANGED <<bpc, op, ids, mainVars, regionVars, diagramVars, toolVars>>

\* ecs.py 42, 67, 92: the range is exhausted
BatchReturn ==
    /\ bpc = "loop" /\ bi >= Len(ids)
    /\ bpc' = "returned"
    /\ UNCHANGED <<op, ids, bi, calls, all_results, mainVars, regionVars, diagramVars, toolVars>>

BatchNext == BatchReturnEmpty \/ BatchEnter \/ BatchCall \/ BatchReturn

BatchSpec == BatchInit /\ [][BatchNext]_vars

\* the limit of identifiers per call the provider documents
ProviderLimit(o) == IF o = "describe_services" THEN 10 ELSE 100

\* ceil(n / c)
CeilDiv(n, c) == (n + c - 1) \div c

\* C7: every call carries at least one and at most the limit of identifiers,
\* every call but the last is full, and when the operation has returned the
\* n identifiers were sent in ceil(n/limit) calls that together carry them
\* all in order (none for an empty list; 100, 100, 47 for 247 cluster ids).
C7_BatchesWithinLimit ==
    LET c == ProviderLimit(op)
        sizes == [k \in DOMAIN calls |-> Len(calls[k])]
    IN bpc # "idle" =>
        /\ \A k \in DOMAIN calls : sizes[k] >= 1 /\ sizes[k] <= c
        /\ \A k \in DOMAIN calls : k < Len(calls) => sizes[k] = c
        /\ bpc = "returned" =>
             /\ Len(calls) = CeilDiv(Len(ids), c)
             /\ \A k \in DOMAIN calls :
                  calls[k] = SubSeq(ids, (k - 1) * c + 1, Min(k * c, Len(ids)))
             /\ ids = <<>> => calls = <<>>
             /\ (op # "describe_services" /\ Len(ids) = 247) => sizes = <<100, 100, 47>>

\* C7 witness: 247 cluster identifiers were sent in three calls
C7_Witness ==
    /\ bpc = "returned" /\ op = "describe_clusters" /\ Len(ids) = 247
    /\ Len(calls) = 3 /\ Len(calls[3]) = 47

----------------------------------------------------------------------------
(* Strings of the diagram generators.  A Python str is the sequence of its *)
(* characters, so that lower(), replace(), split() and the substring test  *)
(* are computed as Python computes them.                                   *)

UpperCase ==
    <<"A", "B", "C", "D", "E", "F", "G", "H", "I", "J", "K", "L", "M", "N",
      "O", "P", "Q", "R", "S", "T", "U", "V", "W", "X", "Y", "Z">>
LowerCase ==
    <<"a", "b", "c", "d", "e", "f", "g", "h", "i", "j", "k", "l", "m", "n",
      "o", "p", "q", "r", "s", "t", "u", "v", "w", "x", "y", "z">>

\* str.lower()
lower(s) ==
    [i \in DOMAIN s |->
        IF \E k \in DOMAIN UpperCase : UpperCase[k] = s[i]
        THEN LowerCase[CHOOSE k \in DOMAIN UpperCase : UpperCase[k] = s[i]]
        ELSE s[i]]

\* s.replace(ch, "") for a single character ch
replace(s, ch) == SelectSeq(s, LAMBDA c : c # ch)

\* sub in s
in(sub, s) ==
    \E i \in 0..(Len(s) - Len(sub)) : SubSeq(s, i + 1, i + Len(sub)) = sub

\* s[:n]
Take(s, n) == SubSeq(s, 1, Min(n, Len(s)))

\* s.split(): the maximal runs of characters other than the blank
RECURSIVE split(_)
split(s) ==
    IF s = <<>> THEN <<>>
    ELSE IF Head(s) = " " THEN split(Tail(s))
    ELSE LET stop == IF \E i \in DOMAIN s : s[i] = " "
                     THEN (CHOOSE i \in DOMAIN s :
                              s[i] = " " /\ \A j \in 1..(i - 1) : s[j] # " ") - 1
                     ELSE Len(s)
         IN <<SubSeq(s, 1, stop)>> \o split(SubSeq(s, stop + 1, Len(s)))

\* " ".join(f"{k}={v}" for k, v in tags.items()); a dict is the sequence of
\* its items in insertion order
RECURSIVE join_tags(_)
join_tags(tags) ==
    IF tags = <<>> THEN <<>>
    ELSE LET item == tags[1][1] \o <<"=">> \o tags[1][2]
         IN IF Len(tags) = 1 THEN item ELSE item \o <<" ">> \o join_tags(Tail(tags))

\* d.get(key, "")
get(tags, key) ==
    IF \E i \in DOMAIN tags : tags[i][1] = key
    THEN tags[CHOOSE i \in DOMAIN tags : tags[i][1] = key][2]
    ELSE <<>>

\* None: the value of the "name" of a record without a Name tag
\* (collectors/vpc_collector.py 140-143); it is no str
None == <<"None">>

\* what a call that raised yields instead of a value
Raised(exception) == [raised |-> exception]

\* the literals of the generators
STR_eks == <<"e", "k", "s">>
STR_ecs == <<"e", "c", "s">>
STR_ecs_cluster == <<"e", "c", "s", ":", "c", "l", "u", "s", "t", "e", "r">>
STR_kubernetes_io == <<"k", "u", "b", "e", "r", "n", "e", "t", "e", "s", ".", "i", "o">>
STR_karpenter == <<"k", "a", "r", "p", "e", "n", "t", "e", "r">>
STR_eks_cluster_name ==
    <<"e", "k", "s", ":", "c", "l", "u", "s", "t", "e", "r", "-", "n", "a",
      "m", "e">>
STR_eks_nodegroup_name ==
    <<"e", "k", "s", ":", "n", "o", "d", "e", "g", "r", "o", "u", "p", "-",
      "n", "a", "m", "e">>

----------------------------------------------------------------------------
(* The filters of the three generators: generate_vpc_diagram               *)
(* (diagram_generator.py), generate_detailed_vpc_diagram                   *)
(* (diagram_generator_detailed.py) and generate_drawio_diagram             *)
(* (diagram_generator_drawio.py).  A missing or null string is <<>>.       *)

Generators == {"overview", "detailed", "drawio"}

\* get_resource_name: the name, else the default key, cut to 30 characters
\* in diagram_generator.py and to 35 in the two others
NameLimit(g) == IF g = "overview" THEN 30 ELSE 35

get_resource_name(g, resource, default_key) ==
    IF resource.name \notin {<<>>, None} THEN Take(resource.name, NameLimit(g))
    ELSE Take(resource[default_key], NameLimit(g))

\* [r for r in lst if r.get("vpc_id") == vpc_id]
by_vpc_id(lst, vpc_id) == SelectSeq(lst, LAMBDA r : r.vpc_id = vpc_id)

\* {s["subnet_id"] for s in vpc_data.get("subnets", [])}
vpc_subnet_ids(vpc_data) ==
    {vpc_data.subnets[i].subnet_id : i \in DOMAIN vpc_data.subnets}

\* a cluster matches when every placement subnet of a service is in the VPC
subnet_match_all(cluster, subnet_ids) ==
    \E i \in DOMAIN cluster.services :
        /\ cluster.services[i].subnets # <<>>
        /\ \A j \in DOMAIN cluster.services[i].subnets :
               cluster.services[i].subnets[j] \in subnet_ids

\* any(s in vpc_subnet_ids for s in svc.get("subnets", [])) for some service
subnet_match(cluster, subnet_ids) ==
    \E i \in DOMAIN cluster.services :
        \E j \in DOMAIN cluster.services[i].subnets :
            cluster.services[i].subnets[j] \in subnet_ids

\* the normalisation of a name before the name match of ECS clusters:
\* lower case without "-" and "_", and in the draw.io generator without " "
normalize(g, name) ==
    LET n == replace(replace(lower(name), "-"), "_")
    IN IF g = "drawio" THEN replace(n, " ") ELSE n

\* name_match of a cluster and a VPC; only the detailed generator has the
\* rule of the parts of the VPC name longer than 3 characters
name_match(g, cluster, vpc_name) ==
    LET cluster_name_lower == normalize(g, cluster.cluster_name)
        vpc_name_lower == normalize(g, vpc_name)
        parts == split(vpc_name_lower)
    IN \/ in(cluster_name_lower, vpc_name_lower)
       \/ in(vpc_name_lower, cluster_name_lower)
       \/ /\ g = "detailed"
          /\ \E k \in DOMAIN parts :
                Len(parts[k]) > 3 /\ in(parts[k], cluster_name_lower)

\* vpc_ecs with one append per rule that matches
vpc_ecs_once_per_rule(g, ecs_clusters, vpc_data) ==
    SelectSeq(ecs_clusters, LAMBDA c : subnet_match(c, vpc_subnet_ids(vpc_data)))
    \o (IF g = "overview" THEN <<>>
        ELSE SelectSeq(ecs_clusters,
                 LAMBDA c : name_match(g, c, get_resource_name(g, vpc_data, "vpc_id"))))

\* vpc_ecs: by subnet in the overview generator, by name or subnet in the others
vpc_ecs(g, ecs_clusters, vpc_data) ==
    SelectSeq(ecs_clusters,
        LAMBDA c :
            \/ subnet_match(c, vpc_subnet_ids(vpc_data))
            \/ /\ g # "overview"
               /\ name_match(g, c, get_resource_name(g, vpc_data, "vpc_id")))

\* vpc_elasticache: the clusters with a subnet group in the overview
\* generator, every cluster of the region in the others
vpc_elasticache(g, elasticache_data) ==
    IF g = "overview"
    THEN SelectSeq(elasticache_data.clusters,
                   LAMBDA c : c.cache_subnet_group_name # <<>>)
    ELSE elasticache_data.clusters

\* vpc_beanstalk_envs: the VPC name without "-" is in the environment name
\* or in the application name without "-"
vpc_beanstalk_envs(g, eb_data, vpc_data) ==
    LET pattern == replace(lower(get_resource_name(g, vpc_data, "vpc_id")), "-")
    IN SelectSeq(eb_data.environments,
           LAMBDA env :
               \/ in(pattern, replace(lower(env.environment_name), "-"))
               \/ in(pattern, replace(lower(env.application_name), "-")))

\* the lists a generator selects for one VPC
Selection(g, rd, vpc_data) ==
    LET vpc_id == vpc_data.vpc_id
        lbs == rd.load_balancers
        common ==
            [vpc_ec2 |-> by_vpc_id(rd.ec2_instances, vpc_id),
             vpc_rds_instances |-> by_vpc_id(rd.rds.instances, vpc_id),
             vpc_rds_clusters |-> by_vpc_id(rd.rds.clusters, vpc_id),
             vpc_elasticache |-> vpc_elasticache(g, rd.elasticache),
             vpc_repl_groups |-> rd.elasticache.replication_groups,
             vpc_eks |-> by_vpc_id(rd.eks_clusters, vpc_id),
             vpc_ecs |-> vpc_ecs(g, rd.ecs_clusters, vpc_data),
             vpc_albs |-> by_vpc_id(lbs.application_load_balancers, vpc_id),
             vpc_nlbs |-> by_vpc_id(lbs.network_load_balancers, vpc_id)]
    IN IF g = "overview"
       THEN Update(common,
                [vpc_clbs |-> by_vpc_id(lbs.classic_load_balancers, vpc_id)])
       ELSE Update(common,
                [vpc_beanstalk_envs |->
                     vpc_beanstalk_envs(g, rd.elasticbeanstalk, vpc_data),
                 vpc_redshift_clusters |-> by_vpc_id(rd.redshift.clusters, vpc_id),
                 vpc_redshift_serverless |->
                     by_vpc_id(rd.redshift.serverless_workgroups, vpc_id)])

----------------------------------------------------------------------------
(* What the generators draw inside the boundary of the VPC: the sequence   *)
(* of nodes in the order of creation, each with its group, its kind and    *)
(* the record it was drawn from.                                           *)

Node(group, kind, res) == [group |-> group, kind |-> kind, res |-> res]

\* one node per record of a list
Nodes(group, kind, lst) == [i \in DOMAIN lst |-> Node(group, kind, lst[i])]

\* the node that stands for the records beyond a display limit
More(group, lst, limit) ==
    IF Len(lst) > limit
    THEN <<Node(group, "more", [count |-> Len(lst) - limit])>>
    ELSE <<>>

RECURSIVE Flatten(_)
Flatten(seqs) == IF seqs = <<>> THEN <<>> ELSE Head(seqs) \o Flatten(Tail(seqs))

running(lst) == SelectSeq(lst, LAMBDA i : i.state = "running")

\* categorize_ec2_instances (diagram_generator_detailed.py 95-152,
\* diagram_generator_drawio.py 177-207).  instance.get("name", "") is None
\* for a record whose "name" is null, and None.lower() raises
\* AttributeError in the first running instance of that kind.
categorize_ec2_instances(ec2_instances, ecs_clusters, eks_clusters) ==
    LET eks_patterns ==
            {lower(eks_clusters[i].cluster_name) : i \in DOMAIN eks_clusters}
            \cup UNION {{lower(eks_clusters[i].node_groups[j].nodegroup_name) :
                            j \in DOMAIN eks_clusters[i].node_groups} :
                        i \in DOMAIN eks_clusters}
        ecs_patterns ==
            {lower(ecs_clusters[i].cluster_name) : i \in DOMAIN ecs_clusters}
        name(inst) == lower(inst.name)
        all_tags(inst) == lower(join_tags(inst.tags))
        is_eks(inst) ==
            \/ in(STR_kubernetes_io, all_tags(inst))
            \/ in(STR_eks, all_tags(inst))
            \/ in(STR_karpenter, all_tags(inst))
            \/ \E pat \in eks_patterns :
                  pat # <<>> /\ (in(pat, name(inst)) \/ in(pat, all_tags(inst)))
        is_ecs(inst) ==
            \/ in(STR_ecs, all_tags(inst))
            \/ in(STR_ecs_cluster, all_tags(inst))
            \/ \E pat \in ecs_patterns : pat # <<>> /\ in(pat, name(inst))
    IN IF \E k \in DOMAIN ec2_instances :
              ec2_instances[k].state = "running" /\ ec2_instances[k].name = None
       THEN Raised("AttributeError")
       ELSE [standalone |->
                 SelectSeq(running(ec2_instances),
                           LAMBDA i : ~is_eks(i) /\ ~is_ecs(i)),
             ecs |-> SelectSeq(running(ec2_instances),
                               LAMBDA i : ~is_eks(i) /\ is_ecs(i)),
             eks |-> SelectSeq(running(ec2_instances), LAMBDA i : is_eks(i))]

\* get_eks_node_instances(ec2_list, cluster_name).get(ng_name, []): the
\* running instances tagged with the cluster and the node group
\* (diagram_generator_detailed.py 298-309, diagram_generator_drawio.py 210-220)
get_eks_node_instances(ec2_list, cluster_name, ng_name) ==
    SelectSeq(running(ec2_list),
        LAMBDA inst :
            /\ get(inst.tags, STR_eks_cluster_name) = cluster_name
            /\ get(inst.tags, STR_eks_nodegroup_name) # <<>>
            /\ get(inst.tags, STR_eks_nodegroup_name) = ng_name)

\* the nodes of generate_vpc_diagram (diagram_generator.py 77-192)
OverviewNodes(sel, vpc_data) ==
    LET public_subnets == SelectSeq(vpc_data.subnets, LAMBDA sn : sn.public)
        private_subnets == SelectSeq(vpc_data.subnets, LAMBDA sn : ~sn.public)
        running_ec2 == running(sel.vpc_ec2)
        lbs ==
            IF public_subnets # <<>> \/ sel.vpc_albs # <<>> \/ sel.vpc_nlbs # <<>>
            THEN Nodes("Public Subnets", "alb", sel.vpc_albs)
                 \o Nodes("Public Subnets", "nlb", sel.vpc_nlbs)
                 \o Nodes("Public Subnets", "clb", sel.vpc_clbs)
            ELSE <<>>
        compute ==
            IF \/ private_subnets # <<>> \/ sel.vpc_ec2 # <<>>
               \/ sel.vpc_ecs # <<>> \/ sel.vpc_eks # <<>>
            THEN (IF Len(running_ec2) <= 5
                  THEN Nodes("Compute", "ec2", running_ec2)
                  ELSE <<Node("Compute", "more", [count |-> Len(running_ec2)])>>)
                 \o Nodes("Compute", "ecs", sel.vpc_ecs)
                 \o Nodes("Compute", "eks", sel.vpc_eks)
            ELSE <<>>
        data ==
            Nodes("Data", "rds", sel.vpc_rds_instances)
            \o Nodes("Data", "aurora", sel.vpc_rds_clusters)
            \o Nodes("Data", "elasticache", sel.vpc_elasticache)
            \o Nodes("Data", "replication_group", sel.vpc_repl_groups)
    IN lbs \o compute \o data

\* the first occurrences of the values of a list, in order
RECURSIVE Distinct(_)
Distinct(lst) ==
    IF lst = <<>> THEN <<>>
    ELSE <<Head(lst)>> \o Distinct(SelectSeq(Tail(lst), LAMBDA x : x # Head(lst)))

\* the nodes of one EKS cluster: the cluster, then per node group its header
\* and the first five instances that get_eks_node_instances finds in the
\* EC2 list it is given
EksNodes(cluster, ec2_list) ==
    <<Node("EKS", "eks", cluster)>>
    \o Flatten([j \in DOMAIN cluster.node_groups |->
           LET ng == cluster.node_groups[j]
               ng_instances ==
                   get_eks_node_instances(ec2_list, cluster.cluster_name,
                                          ng.nodegroup_name)
           IN <<Node("EKS", "nodegroup", ng)>>
              \o Nodes("Node Group", "ec2", Take(ng_instances, 5))
              \o More("Node Group", ng_instances, 5)])

\* the nodes of one ECS cluster: the cluster, eight running services and
\* three stopped ones at most
EcsNodes(cluster) ==
    LET running_services == SelectSeq(cluster.services, LAMBDA sv : sv.running_count > 0)
        stopped_services == SelectSeq(cluster.services, LAMBDA sv : sv.running_count = 0)
    IN <<Node("ECS", "ecs", cluster)>>
       \o Nodes("Running", "ecs_service", Take(running_services, 8))
       \o More("Running", running_services, 8)
       \o Nodes("Stopped", "ecs_task", Take(stopped_services, 3))

\* the nodes of generate_detailed_vpc_diagram (diagram_generator_detailed.py
\* 286-561) and of generate_drawio_diagram (diagram_generator_drawio.py
\* 360-666); ec2_instances is the EC2 list of the whole region
DetailedNodes(g, sel, ec2_instances) ==
    LET ec2_categories == categorize_ec2_instances(sel.vpc_ec2, sel.vpc_ecs, sel.vpc_eks)
        types == Distinct([i \in DOMAIN ec2_categories.ecs |->
                              ec2_categories.ecs[i].instance_type])
        hosts(t) == SelectSeq(ec2_categories.ecs, LAMBDA i : i.instance_type = t)
        rds_clusters ==
            IF g = "drawio" THEN Take(sel.vpc_rds_clusters, 3) ELSE sel.vpc_rds_clusters
        caches ==
            IF g = "drawio" THEN Take(sel.vpc_elasticache, 4) ELSE sel.vpc_elasticache
        repl_groups ==
            IF g = "drawio" THEN Take(sel.vpc_repl_groups, 3) ELSE sel.vpc_repl_groups
    IN Nodes("Load Balancers", "alb", sel.vpc_albs)
       \o Nodes("Load Balancers", "nlb", sel.vpc_nlbs)
       \o Flatten([i \in DOMAIN sel.vpc_eks |-> EksNodes(sel.vpc_eks[i], ec2_instances)])
       \o Flatten([i \in DOMAIN sel.vpc_ecs |-> EcsNodes(sel.vpc_ecs[i])])
       \o Nodes("EC2 Standalone", "ec2", Take(ec2_categories.standalone, 10))
       \o More("EC2 Standalone", ec2_categories.standalone, 10)
       \o [k \in DOMAIN types |->
              Node("ECS Hosts", "ec2_instances",
                   [instance_type |-> types[k], count |-> Len(hosts(types[k]))])]
       \o Nodes("Elastic Beanstalk", "beanstalk", sel.vpc_beanstalk_envs)
       \o Nodes("RDS", "rds", Take(sel.vpc_rds_instances, 6))
       \o (IF g = "detailed" THEN More("RDS", sel.vpc_rds_instances, 6) ELSE <<>>)
       \o Nodes("Aurora", "aurora", rds_clusters)
       \o Nodes("ElastiCache", "elasticache", caches)
       \o Nodes("ElastiCache", "replication_group", repl_groups)
       \o Nodes("Redshift", "redshift", sel.vpc_redshift_clusters)
       \o Nodes("Redshift", "redshift_serverless", sel.vpc_redshift_serverless)

\* the diagram of one VPC: what was selected and what was drawn; nothing is
\* drawn when categorize_ec2_instances raises, which no caller catches
Diagram(g, rd, vpc_data) ==
    LET sel == Selection(g, rd, vpc_data)
        raises ==
            /\ g # "overview"
            /\ "raised" \in DOMAIN categorize_ec2_instances(sel.vpc_ec2, sel.vpc_ecs,
                                                           sel.vpc_eks)
    IN [generator |-> g, vpc_id |-> vpc_data.vpc_id, selection |-> sel,
        raised |-> raises,
        nodes |-> IF g = "overview" THEN OverviewNodes(sel, vpc_data)
                  ELSE IF raises THEN <<>>
                  ELSE DetailedNodes(g, sel, rd.ec2_instances)]

----------------------------------------------------------------------------
(* DiagramSpec: the per-VPC diagrams of one region entry of the inventory  *)

\* the two VPCs of the region: v1 with a private and a public subnet, named
\* or not, and v2 with one private subnet.  public stands for the test of
\* diagram_generator.py 79 on the subnet.
Vpc1(name) ==
    [vpc_id |-> <<"v", "1">>, name |-> name,
     subnets |-> <<[subnet_id |-> "s1", public |-> FALSE],
                   [subnet_id |-> "s2", public |-> TRUE]>>]
Vpc2 ==
    [vpc_id |-> <<"v", "2">>, name |-> <<"D", "e", "v">>,
     subnets |-> <<[subnet_id |-> "s3", public |-> FALSE]>>]

Vpc1Names == {<<>>, <<"P", "r", "o", "d", "-", "A">>}

\* tags of an instance: none, those of an EKS managed node group, an ECS tag
EksNodeTags ==
    <<<<STR_eks_cluster_name, <<"a", "p", "p", "s">>>>, <<STR_eks_nodegroup_name, <<"n", "g", "1">>>>>>
InstanceTags == {<<>>, EksNodeTags, <<<<STR_ecs_cluster, <<"j", "o", "b", "s">>>>>>}

\* the instance whose VPC, state and tags vary, and a plain one in v1
Instance1(vpc_id, state, tags) ==
    [instance_id |-> "i-1", vpc_id |-> vpc_id, state |-> state, name |-> <<"w", "e", "b">>,
     tags |-> tags, instance_type |-> "t3.large"]
Instance2 ==
    [instance_id |-> "i-2", vpc_id |-> <<"v", "1">>, state |-> "running", name |-> <<"d", "b">>,
     tags |-> <<>>, instance_type |-> "m5.large"]

\* an ECS service with its placement subnets
Service(name, subnets, running_count) ==
    [service_name |-> name, subnets |-> subnets, running_count |-> running_count]

\* the services of the ECS cluster: none, one in v1, one with a subnet of no
\* VPC of the region and one of v2, and two of which the second is in v1
ServiceLists ==
    {<<>>,
     <<Service("api", <<"s1">>, 1)>>,
     <<Service("api", <<"s9", "s3">>, 1)>>,
     <<Service("api", <<"s9">>, 1), Service("batch", <<"s1">>, 0)>>}

EcsClusterNames == {<<>>, <<"p", "r", "o", "d", "a", "_", "a", "p", "i">>, <<"j", "o", "b", "s">>}

EcsCluster(name, services) ==
    [cluster_arn |-> "ecs-1", cluster_name |-> name, services |-> services]

EksCluster ==
    [cluster_name |-> <<"a", "p", "p", "s">>, vpc_id |-> <<"v", "1">>,
     node_groups |-> <<[nodegroup_name |-> <<"n", "g", "1">>]>>]

\* a region entry as the inventory holds it
RegionEntry(vpc1_name, i1, ecs, cache_group, clb_vpc) ==
    [vpcs |-> <<Vpc1(vpc1_name), Vpc2>>,
     ec2_instances |-> <<i1, Instance2>>,
     ecs_clusters |-> <<ecs>>,
     eks_clusters |-> <<EksCluster>>,
     rds |-> [instances |-> <<[db_instance_identifier |-> "db-1", vpc_id |-> <<"v", "1">>],
                             [db_instance_identifier |-> "db-2", vpc_id |-> <<"v", "2">>]>>,
              clusters |-> <<[db_cluster_identifier |-> "aurora-1", vpc_id |-> <<"v", "2">>]>>],
     elasticache |->
         [clusters |-> <<[cache_cluster_id |-> <<"c", "a", "c", "h", "e", "-", "1">>,
                          cache_subnet_group_name |-> cache_group]>>,
          replication_groups |-> <<[replication_group_id |-> <<"r", "g", "-", "1">>]>>],
     load_balancers |->
         [application_load_balancers |->
              <<[load_balancer_name |-> "alb-1", vpc_id |-> <<"v", "1">>]>>,
          network_load_balancers |-> <<>>,
          classic_load_balancers |->
              <<[load_balancer_name |-> "clb-1", vpc_id |-> clb_vpc]>>],
     elasticbeanstalk |->
         [environments |-> <<[environment_name |-> <<"p", "r", "o", "d", "-", "a", "-", "w", "e", "b">>,
                              application_name |-> <<"s", "h", "o", "p">>]>>],
     redshift |-> [clusters |-> <<[cluster_identifier |-> "rs-1", vpc_id |-> <<"v", "2">>]>>,
                   serverless_workgroups |-> <<>>]]

VpcIds == {<<"v", "1">>, <<"v", "2">>}

DiagramInit ==
    /\ \E vpc1_name \in Vpc1Names, i1_vpc \in VpcIds,
          i1_state \in {"running", "stopped"}, i1_tags \in InstanceTags,
          ecs_name \in EcsClusterNames, services \in ServiceLists,
          cache_group \in {<<>>, <<"g", "r", "p">>}, clb_vpc \in VpcIds :
         inv_region = RegionEntry(vpc1_name, Instance1(i1_vpc, i1_state, i1_tags),
                                  EcsCluster(ecs_name, services), cache_group, clb_vpc)
    /\ dpc = "loaded" /\ diagram = EmptyDict
    /\ args = NoArgs /\ cloud = 0
    /\ MainIdle /\ RegionIdle /\ BatchIdle /\ ToolsIdle

\* one per-VPC diagram of a generator
Generate(g) ==
    /\ dpc \in {"loaded", "drawn"}
    /\ \E i \in DOMAIN inv_region.vpcs :
         diagram' = Diagram(g, inv_region, inv_region.vpcs[i])
    /\ dpc' = "drawn"
    /\ UNCHANGED <<inv_region, mainVars, regionVars, batchVars, toolVars>>

\* diagram_generator.py: generate_vpc_diagram
GenerateOverview == Generate("overview")

\* diagram_generator_detailed.py: generate_detailed_vpc_diagram
GenerateDetailed == Generate("detailed")

\* diagram_generator_drawio.py: generate_drawio_diagram
GenerateDrawio == Generate("drawio")

DiagramNext == GenerateOverview \/ GenerateDetailed \/ GenerateDrawio

DiagramSpec == DiagramInit /\ [][DiagramNext]_vars

----------------------------------------------------------------------------
(* Properties of the correlation of resources and VPCs                     *)

\* the VPC record the diagram was generated for
DiagramVpc ==
    inv_region.vpcs[CHOOSE i \in DOMAIN inv_region.vpcs :
                        inv_region.vpcs[i].vpc_id = diagram.vpc_id]

\* the resources of the region that carry a VPC id
VpcTagged(rd) ==
    rd.ec2_instances \o rd.eks_clusters \o rd.rds.instances \o rd.rds.clusters
    \o rd.load_balancers.application_load_balancers
    \o rd.load_balancers.network_load_balancers
    \o rd.load_balancers.classic_load_balancers
    \o rd.redshift.clusters \o rd.redshift.serverless_workgroups

\* the resources of the region without a VPC id
NotVpcTagged(rd) ==
    rd.ecs_clusters \o rd.elasticache.clusters \o rd.elasticache.replication_groups
    \o rd.elasticbeanstalk.environments

\* how often a resource is drawn, and how often the selected lists hold it
Drawn(r) == Cardinality({i \in DOMAIN diagram.nodes : diagram.nodes[i].res = r})
Listed(r) ==
    LET sel == diagram.selection
    IN Cardinality({p \in UNION {{<<k, i>> : i \in DOMAIN sel[k]} : k \in DOMAIN sel} :
                       sel[p[1]][p[2]] = r})

\* C8 as stated: every resource tagged with the id of the VPC is drawn
\* exactly once in the diagram of that VPC.
C8_TaggedResourceDrawnOnce ==
    dpc = "drawn" =>
        \A i \in DOMAIN VpcTagged(inv_region) :
            LET r == VpcTagged(inv_region)[i]
            IN r.vpc_id = diagram.vpc_id => Drawn(r) = 1

\* the generator has a list for the type of the resource: classic load
\* balancers are listed by the overview generator only, Redshift by the others
HasListFor(g, r) ==
    LET lbs == inv_region.load_balancers
        rs == inv_region.redshift
    IN /\ (\E i \in DOMAIN lbs.classic_load_balancers :
              lbs.classic_load_balancers[i] = r) => g = "overview"
       /\ (\/ \E i \in DOMAIN rs.clusters : rs.clusters[i] = r
           \/ \E i \in DOMAIN rs.serverless_workgroups :
                 rs.serverless_workgroups[i] = r) => g # "overview"

\* C8 amended: a resource tagged with the id of the VPC is drawn at most
\* once in the diagram of that VPC, and the lists selected for the VPC hold it
\* exactly once when the generator has a list for its type and not at all
\* otherwise; a resource tagged with another VPC id is in none of the lists;
\* and no resource without a VPC id is listed or drawn twice, whichever of
\* the subnet and name rules matched it.
C8_TaggedResourceAtMostOnce ==
    dpc = "drawn" =>
        /\ \A i \in DOMAIN VpcTagged(inv_region) :
             LET r == VpcTagged(inv_region)[i]
             IN /\ r.vpc_id = diagram.vpc_id =>
                     /\ Drawn(r) <= 1
                     /\ Listed(r) = IF HasListFor(diagram.generator, r) THEN 1 ELSE 0
                /\ r.vpc_id # diagram.vpc_id => Listed(r) = 0
        /\ \A i \in DOMAIN NotVpcTagged(inv_region) :
             LET r == NotVpcTagged(inv_region)[i]
             IN Drawn(r) <= 1 /\ Listed(r) <= 1

\* C8 witness: a detailed diagram of v1 in which the instance of an EKS node
\* group is drawn once, under its node group, the classic load balancer of
\* the VPC is not drawn, and the ECS cluster that matches by subnet and by
\* name is drawn once
C8_Witness ==
    /\ dpc = "drawn" /\ diagram.generator = "detailed"
    /\ LET i1 == inv_region.ec2_instances[1]
           clb == inv_region.load_balancers.classic_load_balancers[1]
           ecs == inv_region.ecs_clusters[1]
       IN /\ i1.vpc_id = diagram.vpc_id /\ i1.tags = EksNodeTags /\ Drawn(i1) = 1
          /\ \E k \in DOMAIN diagram.nodes :
                diagram.nodes[k].res = i1 /\ diagram.nodes[k].group = "Node Group"
          /\ clb.vpc_id = diagram.vpc_id /\ Drawn(clb) = 0
          /\ subnet_match(ecs, vpc_subnet_ids(DiagramVpc))
          /\ name_match("detailed", ecs, get_resource_name("detailed", DiagramVpc, "vpc_id"))
          /\ ecs.cluster_name # <<>>
          /\ Drawn(ecs) = 1

\* the name of a record for the name rule
NameOf(r) ==
    IF "cluster_name" \in DOMAIN r THEN r.cluster_name
    ELSE IF "environment_name" \in DOMAIN r THEN r.environment_name
    ELSE IF "cache_cluster_id" \in DOMAIN r THEN r.cache_cluster_id
    ELSE IF "replication_group_id" \in DOMAIN r THEN r.replication_group_id
    ELSE IF "name" \in DOMAIN r THEN r.name
    ELSE <<>>

\* one of the three rules relates the record to the VPC: its VPC id, a
\* placement subnet of one of its services, or its name and the VPC name one
\* containing the other once normalised
MatchedByRule(r, vpc_data) ==
    LET vpc_name == normalize("drawio", get_resource_name("drawio", vpc_data, "vpc_id"))
        r_name == normalize("drawio", NameOf(r))
    IN \/ "vpc_id" \in DOMAIN r /\ r.vpc_id = vpc_data.vpc_id
       \/ "services" \in DOMAIN r /\ subnet_match(r, vpc_subnet_ids(vpc_data))
       \/ r_name # <<>> /\ (in(vpc_name, r_name) \/ in(r_name, vpc_name))
       \/ "application_name" \in DOMAIN r
          /\ in(vpc_name, normalize("drawio", r.application_name))
       \/ "services" \in DOMAIN r
          /\ name_match("detailed", r, get_resource_name("detailed", vpc_data, "vpc_id"))

\* the kinds of node drawn from a resource of the region
ResourceKinds ==
    {"alb", "nlb", "clb", "ec2", "ecs", "eks", "rds", "aurora", "elasticache",
     "replication_group", "beanstalk", "redshift", "redshift_serverless"}

\* C9 as stated: every resource drawn inside the boundary of the VPC was
\* matched to the VPC by its VPC id, by a placement subnet or by its name.
C9_DrawnResourceMatchesVpc ==
    dpc = "drawn" =>
        \A k \in DOMAIN diagram.nodes :
            diagram.nodes[k].kind \in ResourceKinds =>
                MatchedByRule(diagram.nodes[k].res, DiagramVpc)

\* the cluster has a service with a placement subnet among the subnets of
\* the VPC
HasServiceInVpc(cluster, vpc_data) ==
    \E i \in DOMAIN cluster.services, j \in DOMAIN vpc_data.subnets :
        \E k \in DOMAIN cluster.services[i].subnets :
            cluster.services[i].subnets[k] = vpc_data.subnets[j].subnet_id

\* C10: in the diagram of a VPC, whichever generator made it, every ECS
\* cluster of the region with a service placed in a subnet of the VPC is in
\* the list of ECS clusters of the VPC and is drawn.
C10_ClusterAttributedBySubnet ==
    dpc = "drawn" =>
        \A i \in DOMAIN inv_region.ecs_clusters :
            LET c == inv_region.ecs_clusters[i]
            IN HasServiceInVpc(c, DiagramVpc) =>
                 /\ \E k \in DOMAIN diagram.selection.vpc_ecs :
                       diagram.selection.vpc_ecs[k] = c
                 /\ \E k \in DOMAIN diagram.nodes :
                       diagram.nodes[k].kind = "ecs" /\ diagram.nodes[k].res = c

\* C10 witness: an overview diagram of v2 with the cluster whose service is
\* placed in a subnet of v2 and in a subnet of no VPC, and whose name matches
\* no VPC name
C10_Witness ==
    /\ dpc = "drawn" /\ diagram.generator = "overview"
    /\ diagram.vpc_id = Vpc2.vpc_id
    /\ LET c == inv_region.ecs_clusters[1]
       IN /\ HasServiceInVpc(c, Vpc2)
          /\ ~name_match("detailed", c, Vpc2.name)
          /\ c.cluster_name # <<>>
          /\ Drawn(c) = 1

----------------------------------------------------------------------------
(* NameMatchSpec: the name match of an ECS cluster and a VPC, as the        *)
(* detailed and the draw.io generator compute it for one pair of names.     *)

\* display names of the VPC (get_resource_name of the VPC) and names of the
\* cluster
MatchVpcNames ==
    {<<"P", "r", "o", "d", "-", "A">>, <<"M", "a", "i", "n", " ", "V", "P", "C">>,
     <<"M", "y", " ", "V", "P", "C">>, <<"d", "e", "v", "_", "n", "e", "t">>,
     <<"v", "p", "c", "-", "0", "1">>}
MatchClusterNames ==
    {<<>>, <<"p", "r", "o", "d", "a", "_", "a", "p", "i">>,
     <<"m", "a", "i", "n", "_", "a", "p", "i">>, <<"m", "y", "v", "p", "c">>,
     <<"D", "e", "v", "-", "N", "e", "t">>, <<"j", "o", "b", "s">>}

NameMatchInit ==
    /\ fpc = "name_match"
    /\ \E v \in MatchVpcNames, c \in MatchClusterNames :
         fin = [vpc_name |-> v, cluster_name |-> c]
    /\ fout = EmptyDict
    /\ args = NoArgs /\ cloud = 0
    /\ OnlyCalls

\* the name_match a generator computes for the pair
NameMatch(g) ==
    /\ fpc = "name_match" /\ g \notin DOMAIN fout
    /\ fout' = Put(fout, g, name_match(g, [cluster_name |-> fin.cluster_name],
                                       fin.vpc_name))
    /\ UNCHANGED <<fpc, fin, notCallVars>>

\* diagram_generator_detailed.py 200-210
NameMatchDetailed == NameMatch("detailed")

\* diagram_generator_drawio.py 270-274
NameMatchDrawio == NameMatch("drawio")

NameMatchNext == NameMatchDetailed \/ NameMatchDrawio

NameMatchSpec == NameMatchInit /\ [][NameMatchNext]_vars

\* the rule as stated: lower case without "-", "_" and " "
StatedNormalize(s) == replace(replace(replace(lower(s), "-"), "_"), " ")

\* the rule as stated: one normalized name is inside the other, or a part of
\* the VPC name between blanks, longer than 3 characters, is in the name of
\* the candidate
StatedNameMatch(vpc_name, candidate) ==
    LET nv == StatedNormalize(vpc_name)
        nc == StatedNormalize(candidate)
        parts == split(replace(replace(lower(vpc_name), "-"), "_"))
    IN \/ in(nv, nc)
       \/ in(nc, nv)
       \/ \E k \in DOMAIN parts : Len(parts[k]) > 3 /\ in(parts[k], nc)

\* C11: for every pair of names each generator answers what the stated rule
\* answers (names lower-cased and stripped of hyphens, underscores and
\* spaces; one inside the other, or a part of the VPC name longer than 3
\* characters inside the candidate), so the detailed and the draw.io
\* generator give the same answer for the same pair.
C11_NameMatchIsStatedRule ==
    fpc = "name_match" =>
        \A g \in DOMAIN fout :
            fout[g] = StatedNameMatch(fin.vpc_name, fin.cluster_name)

----------------------------------------------------------------------------
(* CategorizeSpec: categorize_ec2_instances called with the instances of a  *)
(* VPC and the clusters matched to it, by the detailed and by the draw.io   *)
(* generator (the two copies of the function are the same code).            *)

\* names of an instance: no Name tag, a plain name, a name that holds the
\* name of the EKS cluster, a name that holds the name of the ECS cluster
CatNames ==
    {None, <<"w", "e", "b">>, <<"a", "p", "p", "s", "-", "n", "o", "d", "e">>,
     <<"j", "o", "b", "s", "-", "h", "o", "s", "t">>}

\* tags of an instance, a dict as the sequence of its items
CatEksTags ==
    <<<<STR_eks_cluster_name, <<"p", "r", "o", "d">>>>,
      <<STR_eks_nodegroup_name, <<"n", "g", "1">>>>>>
CatEcsTags == <<<<STR_ecs_cluster, <<"j", "o", "b", "s">>>>>>
CatKarpenterTags ==
    <<<<<<"k", "a", "r", "p", "e", "n", "t", "e", "r", ".", "s", "h", "/", "n", "o",
          "d", "e", "p", "o", "o", "l">>,
        <<"d", "e", "f", "a", "u", "l", "t">>>>>>
CatTags == {<<>>, CatEksTags, CatEcsTags, CatEksTags \o CatEcsTags, CatKarpenterTags}

CatInstance(id, state, name, tags) ==
    [instance_id |-> id, vpc_id |-> <<"v", "1">>, state |-> state, name |-> name,
     tags |-> tags, instance_type |-> "t3.large"]

\* the clusters matched to the VPC: none, or an ECS and an EKS cluster
CatClusters ==
    {[ecs_clusters |-> <<>>, eks_clusters |-> <<>>],
     [ecs_clusters |-> <<EcsCluster(<<"j", "o", "b", "s">>, <<>>)>>,
      eks_clusters |-> <<EksCluster>>]}

CategorizeInit ==
    /\ fpc = "categorize"
    /\ \E s1 \in {"running", "stopped"}, n1 \in CatNames, t1 \in CatTags,
          s2 \in {"running", "stopped"}, n2 \in {None, <<"w", "e", "b">>},
          t2 \in {<<>>, CatEcsTags}, cl \in CatClusters :
         fin = [ec2_instances |-> <<CatInstance("i-1", s1, n1, t1),
                                    CatInstance("i-2", s2, n2, t2)>>,
                ecs_clusters |-> cl.ecs_clusters,
                eks_clusters |-> cl.eks_clusters]
    /\ fout = EmptyDict
    /\ args = NoArgs /\ cloud = 0
    /\ OnlyCalls

\* one generator calls the function: the buckets, or the exception
Categorize(g) ==
    /\ fpc = "categorize" /\ g \notin DOMAIN fout
    /\ fout' = Put(fout, g, categorize_ec2_instances(fin.ec2_instances,
                                fin.ecs_clusters, fin.eks_clusters))
    /\ UNCHANGED <<fpc, fin, notCallVars>>

\* diagram_generator_detailed.py 223
CategorizeDetailed == Categorize("detailed")

\* diagram_generator_drawio.py 282
CategorizeDrawio == Categorize("drawio")

CategorizeNext == CategorizeDetailed \/ CategorizeDrawio

CategorizeSpec == CategorizeInit /\ [][CategorizeNext]_vars

\* how many times a record is in a list
Occurrences(lst, x) == Cardinality({k \in DOMAIN lst : lst[k] = x})

\* C12: the function returns the three buckets; every running instance is
\* in exactly one of them and an instance in another state in none; each
\* bucket keeps the order of the input.
C12_RunningInstancesPartitioned ==
    fpc = "categorize" =>
        \A g \in DOMAIN fout :
            LET r == fout[g]
                placed(x) == Occurrences(r.standalone, x) + Occurrences(r.ecs, x)
                             + Occurrences(r.eks, x)
                ordered(b) ==
                    b = SelectSeq(fin.ec2_instances, LAMBDA x : Occurrences(b, x) > 0)
            IN /\ DOMAIN r = {"standalone", "ecs", "eks"}
               /\ \A k \in DOMAIN fin.ec2_instances :
                      placed(fin.ec2_instances[k]) =
                          IF fin.ec2_instances[k].state = "running" THEN 1 ELSE 0
               /\ ordered(r.standalone) /\ ordered(r.ecs) /\ ordered(r.eks)

\* the members of a list
Members(lst) == {lst[k] : k \in DOMAIN lst}

\* a tag key or value holds one of the markers of the orchestration
\* platform: eks, kubernetes.io, karpenter
HasOrchestrationMarker(tags) ==
    \E k \in DOMAIN tags, j \in 1..2 :
        \E marker \in {STR_eks, STR_kubernetes_io, STR_karpenter} :
            in(marker, lower(tags[k][j]))

\* C13: a running instance whose tags carry a marker of the orchestration
\* platform (for example eks:cluster-name=prod, eks:nodegroup-name=ng1) is
\* put in the eks bucket and not in standalone, whatever its name and
\* whatever clusters were matched to the VPC.
C13_MarkedInstanceIsEks ==
    fpc = "categorize" =>
        \A g \in DOMAIN fout, k \in DOMAIN fin.ec2_instances :
            LET inst == fin.ec2_instances[k]
            IN (inst.state = "running" /\ HasOrchestrationMarker(inst.tags)) =>
                   /\ "eks" \in DOMAIN fout[g]
                   /\ inst \in Members(fout[g].eks)
                   /\ inst \notin Members(fout[g].standalone)

\* the signal of the orchestration cluster: a marker in the tags, or the name
\* of a matched EKS cluster or node group in the name or the tags
EksSignal(inst) ==
    \/ HasOrchestrationMarker(inst.tags)
    \/ \E c \in Members(fin.eks_clusters) :
          \E pat \in {lower(c.cluster_name)}
                     \cup {lower(ng.nodegroup_name) : ng \in Members(c.node_groups)} :
             /\ pat # <<>>
             /\ \/ inst.name # None /\ in(pat, lower(inst.name))
                \/ in(pat, lower(join_tags(inst.tags)))

\* the signal of the container service: ecs in the tags, or the name of a
\* matched ECS cluster in the name
EcsSignal(inst) ==
    \/ in(STR_ecs, lower(join_tags(inst.tags)))
    \/ \E c \in Members(fin.ecs_clusters) :
          /\ c.cluster_name # <<>>
          /\ inst.name # None /\ in(lower(c.cluster_name), lower(inst.name))

\* C18: a running instance with both signals is put in the eks bucket and
\* not in the ecs bucket; the ecs bucket holds exactly the running instances
\* with the signal of the container service and without the other.
C18_EksBeforeEcs ==
    fpc = "categorize" =>
        \A g \in DOMAIN fout :
            /\ "ecs" \in DOMAIN fout[g]
            /\ \A inst \in Members(fin.ec2_instances) :
                   (inst.state = "running" /\ EksSignal(inst) /\ EcsSignal(inst)) =>
                       /\ inst \in Members(fout[g].eks)
                       /\ inst \notin Members(fout[g].ecs)
            /\ fout[g].ecs =
                   SelectSeq(fin.ec2_instances,
                       LAMBDA inst : /\ inst.state = "running"
                                     /\ EcsSignal(inst) /\ ~EksSignal(inst))

----------------------------------------------------------------------------
(* The layout of generate_drawio_diagram (diagram_generator_drawio.py):     *)
(* the cells and edges DrawIOGenerator collects, with their ids, parents    *)
(* and coordinates.  The value of a cell is the tuple of the data its label *)
(* is formatted from.                                                       *)

\* for x in seq: acc = op(acc, x); the value the loop starts from exists
\* before the loop is entered
Fold(f(_, _), acc, seq) ==
    LET it[i \in 0..Len(seq)] == IF i = 0 THEN acc ELSE f(it[i - 1], seq[i])
    IN IF acc = acc THEN it[Len(seq)] ELSE acc

Max(a, b) == IF a > b THEN a ELSE b

\* a generator whose counter goes on where the run before left it
DrawIOGeneratorKept ==
    [cell_id |-> IF lpc = "loaded" /\ layouts.drawio # <<>>
                 THEN 2 + Len(layouts.drawio[1].cells) + Len(layouts.drawio[1].edges)
                 ELSE 2,
     cells |-> <<>>, edges |-> <<>>]

\* DrawIOGenerator.__init__: cell_id = 2, no cells, no edges
DrawIOGenerator == [cell_id |-> 2, cells |-> <<>>, edges |-> <<>>]

\* a counter that is read and not moved on
next_id_unmoved(gen) == gen.cell_id

\* DrawIOGenerator._next_id
next_id(gen) == gen.cell_id + 1

\* DrawIOGenerator.add_group and add_node: a vertex cell; the id returned is
\* next_id(gen)
add_cell(gen, label, style, x, y, width, height, parent) ==
    [gen EXCEPT !.cell_id = next_id(gen),
                !.cells = Append(gen.cells,
                    [id |-> next_id(gen), value |-> label, style |-> style,
                     parent |-> parent, x |-> x, y |-> y,
                     width |-> width, height |-> height])]

add_group(gen, label, x, y, width, height, parent) ==
    add_cell(gen, label, "group", x, y, width, height, parent)

add_node(gen, label, node_type, x, y, parent, width, height) ==
    add_cell(gen, label, node_type, x, y, width, height, parent)

\* DrawIOGenerator.add_edge: the parent of an edge is the page, cell 1
add_edge(gen, source, target) ==
    [gen EXCEPT !.cell_id = next_id(gen),
                !.edges = Append(gen.edges,
                    [id |-> next_id(gen), parent |-> 1,
                     source |-> source, target |-> target])]

\* the local variables of generate_drawio_diagram: the cursors of the rows
\* and the lists of ids collected for node_refs
NewLocals ==
    [cf_x |-> 0, gw_x |-> 0, lb_x |-> 0, eks_x |-> 0, ng_x |-> 0, inst_x |-> 0,
     pod_y |-> 0, ecs_x |-> 0, svc_x |-> 0, ec2_x |-> 0, host_x |-> 0, eb_x |-> 0,
     db_x |-> 0, rds_x |-> 0, cache_x |-> 0, rs_x |-> 0,
     cf_refs |-> <<>>, alb_refs |-> <<>>, eks_refs |-> <<>>, ecs_refs |-> <<>>,
     ecs_svc_refs |-> <<>>, eb_refs |-> <<>>, rds_refs |-> <<>>, cache_refs |-> <<>>]

\* the state of generate_drawio_diagram: the generator, node_refs, current_y,
\* the id of the VPC group and the other local variables
NewLayout ==
    [gen |-> DrawIOGenerator, node_refs |-> EmptyDict, current_y |-> 20,
     vpc_group |-> 0, locals |-> NewLocals]

\* gen.add_group(...) and gen.add_node(...) in the state of the function
Container(b, label, x, y, width, height, parent) ==
    [b EXCEPT !.gen = add_group(@, label, x, y, width, height, parent)]

Vertex(b, label, node_type, x, y, parent, width, height) ==
    [b EXCEPT !.gen = add_node(@, label, node_type, x, y, parent, width, height)]

\* var = value and var += n
Set(b, var, value) == [b EXCEPT !.locals[var] = value]

Step(b, var, n) == [b EXCEPT !.locals[var] = @ + n]

\* refs.append(ref) for the id add_node returned last
Keep(b, refs) ==
    IF refs = "" THEN b ELSE [b EXCEPT !.locals[refs] = Append(@, b.gen.cell_id)]

\* node_refs[key] = refs
Assign(b, key, refs) == [b EXCEPT !.node_refs = Put(@, key, b.locals[refs])]

\* a row that starts where the row before it started
NextRowStays(b, n) == b

\* current_y += n
NextRow(b, n) == [b EXCEPT !.current_y = @ + n]

\* a row of nodes inside one group: for every item one node at the cursor,
\* which moves on by step; the ids are collected in the list refs
NodeRow(b, items, node_type, cursor, y, step, parent, width, height, refs) ==
    Fold(LAMBDA st, item :
            Step(Keep(Vertex(st, <<node_type, item>>, node_type, st.locals[cursor], y,
                           parent, width, height),
                      refs),
                 cursor, step),
         b, items)

\* the node that stands for the items beyond the limit, at the cursor
MoreAt(b, items, limit, node_type, cursor, y, parent) ==
    IF Len(items) > limit
    THEN Vertex(b, <<"more", Len(items) - limit>>, node_type, b.locals[cursor], y,
              parent, 40, 40)
    ELSE b

\* any(p(x) for x in s) for a set s, evaluated in the order of iteration
\* that the hash seed of the run gives to the set
AnyInOrder(order, p(_)) ==
    Fold(LAMBDA found, x : IF found THEN TRUE ELSE p(x), FALSE, order)

\* the orders in which a run can iterate over a set
Orders(S) ==
    {o \in [1..Cardinality(S) -> S] : \A i, j \in DOMAIN o : i # j => o[i] # o[j]}

\* diagram_generator_drawio.py 284-300: the distributions with an origin that
\* points to a load balancer of the VPC or holds the name of the VPC;
\* lb_order is the order of iteration over the set vpc_lb_dns
vpc_cloudfront(cf_data, vpc_albs, vpc_nlbs, vpc_name, lb_order) ==
    LET pattern == replace(replace(lower(vpc_name), "-"), "_")
        hit(origin) ==
            LET origin_domain == lower(origin.domain_name)
            IN \/ AnyInOrder(lb_order,
                      LAMBDA lb_dns : lb_dns # <<>> /\ in(lb_dns, origin_domain))
               \/ in(pattern, replace(replace(origin_domain, "-"), "_"))
    IN SelectSeq(cf_data.distributions,
           LAMBDA dist : \E k \in DOMAIN dist.origins : hit(dist.origins[k]))

\* the set vpc_lb_dns (diagram_generator_drawio.py 287-291)
vpc_lb_dns(vpc_albs, vpc_nlbs) ==
    {lower(lb.dns_name) : lb \in Members(vpc_albs) \cup Members(vpc_nlbs)}

\* the CloudFront group with its distributions
\* (diagram_generator_drawio.py 316-337)
Row0_Show(b, dists_to_show) ==
    LET cf_group == next_id(b.gen)
        b1 == Container(b, <<"Edge / CDN (CloudFront)">>, 20, b.current_y,
                    Len(dists_to_show) * 120 + 60, 110, 1)
        b2 == Set(Vertex(b1, <<"Users">>, "users", 15, 30, cf_group, 48, 48), "cf_x", 80)
        b3 == NodeRow(b2, Take(dists_to_show, 6), "cloudfront", "cf_x", 25, 110,
                      cf_group, 48, 48, "cf_refs")
    IN IF dists_to_show = <<>> THEN b
       ELSE NextRow(Assign(b3, "cloudfront", "cf_refs"), 130)

\* Row 0: CloudFront, outside the VPC (diagram_generator_drawio.py 311-337)
Row0_CloudFront(b, cf_data, related) ==
    IF related # <<>> \/ cf_data.distributions # <<>>
    THEN Row0_Show(b, IF related # <<>> THEN related
                      ELSE Take(cf_data.distributions, 5))
    ELSE b

\* node_refs["igw"] = gen.add_node(...): the id itself, of the gateway drawn
\* last
IgwRow(b, internet_gateways, gw_group) ==
    Fold(LAMBDA st, igw :
            LET n1 == Vertex(st, <<"igw", igw>>, "igw", st.locals.gw_x, 25, gw_group,
                           48, 48)
            IN Step([n1 EXCEPT !.node_refs = Put(@, "igw", <<n1.gen.cell_id>>)],
                    "gw_x", 70),
         b, internet_gateways)

\* the VPC container and Row 1, the gateways (diagram_generator_drawio.py
\* 339-358)
Row1_Gateways(b, vpc_data, vpc_name) ==
    LET vpc_group == next_id(b.gen)
        gw_group == next_id(b.gen) + 1
        b1 == Container(b, <<vpc_name, vpc_data.cidr_block>>, 20, b.current_y, 2200, 1600, 1)
        b2 == Set(Container(b1, <<"Gateways">>, 20, 50, 300, 100, vpc_group), "gw_x", 20)
        b3 == IgwRow(b2, vpc_data.internet_gateways, gw_group)
        b4 == NodeRow(b3,
                      SelectSeq(vpc_data.nat_gateways,
                                LAMBDA nat : nat.state = "available"),
                      "nat", "gw_x", 25, 70, gw_group, 48, 48, "")
    IN [b4 EXCEPT !.vpc_group = vpc_group, !.current_y = 160]

\* Row 2: load balancers (diagram_generator_drawio.py 360-376)
Row2_LoadBalancers(b, vpc_albs, vpc_nlbs) ==
    LET lb_group == next_id(b.gen)
        b1 == Set(Container(b, <<"Load Balancers">>, 20, b.current_y,
                        Max(400, (Len(vpc_albs) + Len(vpc_nlbs)) * 80 + 40), 100,
                        b.vpc_group),
                  "lb_x", 20)
        b2 == NodeRow(b1, vpc_albs, "alb", "lb_x", 25, 80, lb_group, 48, 48, "alb_refs")
        b3 == NodeRow(b2, vpc_nlbs, "nlb", "lb_x", 25, 80, lb_group, 48, 48, "")
    IN IF vpc_albs = <<>> /\ vpc_nlbs = <<>> THEN b
       ELSE NextRow(Assign(b3, "albs", "alb_refs"), 120)

\* s.replace(old, new) for two characters
replace_by(s, old, new) == [k \in DOMAIN s |-> IF s[k] = old THEN new ELSE s[k]]

STR_ip == <<"i", "p", "-">>
STR_compute_internal ==
    <<".", "c", "o", "m", "p", "u", "t", "e", ".", "i", "n", "t", "e", "r", "n", "a", "l">>

\* a host name that keeps the dots of the address
private_dns_dotted(private_ip, region) ==
    STR_ip \o private_ip \o <<".">> \o region \o STR_compute_internal

\* f"ip-{private_ip.replace('.', '-')}.{region}.compute.internal"
\* (diagram_generator_drawio.py 416 and 430, diagram_generator_detailed.py
\* 350 and 363)
private_dns(private_ip, region) ==
    STR_ip \o replace_by(private_ip, ".", "-") \o <<".">> \o region
    \o STR_compute_internal

\* get_pods_for_cluster (diagram_generator_drawio.py 223-227): the
\* pods_by_node of the entry of the cluster, {} without workloads or entry
get_pods_for_cluster(k8s_workloads, cluster_name) ==
    IF cluster_name \notin DOMAIN k8s_workloads THEN EmptyDict
    ELSE IF "pods_by_node" \notin DOMAIN k8s_workloads[cluster_name] THEN EmptyDict
    ELSE k8s_workloads[cluster_name].pods_by_node

\* pods_by_node.get(private_dns, []): the pods of a node, looked up under
\* the host name written from its private IP and the region
node_pods(k8s_workloads, cluster_name, inst, region) ==
    LET pods_by_node == get_pods_for_cluster(k8s_workloads, cluster_name)
    IN IF private_dns(inst.private_ip, region) \in DOMAIN pods_by_node
       THEN pods_by_node[private_dns(inst.private_ip, region)] ELSE <<>>

\* the running pods outside the system namespaces
app_pods(pods) ==
    SelectSeq(pods,
        LAMBDA pd : /\ pd.status = "Running"
                    /\ pd.namespace \notin {"kube-system", "amazon-cloudwatch",
                                            "amazon-guardduty"})

\* an instance of a node group with its pods
\* (diagram_generator_drawio.py 427-447)
DrawInstance(b, inst, pods, ng_group) ==
    LET node_group == next_id(b.gen)
        b1 == Container(b, <<inst.name, inst.private_ip, Len(pods)>>, b.locals.inst_x, 30,
                    90, 140, ng_group)
        b2 == Set(Vertex(b1, <<inst.instance_type>>, "ec2", 20, 30, node_group, 40, 40),
                  "pod_y", 80)
        b3 == Fold(LAMBDA st, pd :
                      Step(Vertex(st, <<pd.name>>, "pod", 25, st.locals.pod_y, node_group,
                                35, 35),
                           "pod_y", 20),
                   b2, Take(pods, 3))
    IN Step(b3, "inst_x", 95)

\* one node group of an EKS cluster (diagram_generator_drawio.py 408-453)
DrawNodeGroup(b, ng, cluster_name, ng_instances, k8s_workloads, eks_group, region) ==
    LET ng_group == next_id(b.gen)
        total_pods ==
            Fold(LAMBDA n, inst : n + Len(node_pods(k8s_workloads, cluster_name, inst,
                                                   region)),
                 0, ng_instances)
        ng_display_width == Max(180, Min(Len(ng_instances), 5) * 100 + 80)
        b1 == Container(b, <<ng.nodegroup_name, Len(ng_instances), total_pods>>,
                    b.locals.ng_x, 100, ng_display_width, 180, eks_group)
        b2 == Set(Vertex(b1, <<ng.nodegroup_name>>, "ec2_instances", 10, 30, ng_group,
                       40, 40),
                  "inst_x", 60)
        b3 == Fold(LAMBDA st, inst :
                      DrawInstance(st, inst,
                          app_pods(node_pods(k8s_workloads, cluster_name, inst,
                                             region)),
                          ng_group),
                   b2, Take(ng_instances, 5))
    IN Step(MoreAt(b3, ng_instances, 5, "ec2", "inst_x", 60, ng_group),
            "ng_x", ng_display_width + 20)

\* the width of the group of a cluster (diagram_generator_drawio.py 393-398)
eks_width(cluster, ec2_instances) ==
    Max(400,
        Fold(LAMBDA w, ng :
                w + Max(180, Min(Len(get_eks_node_instances(ec2_instances,
                                         cluster.cluster_name, ng.nodegroup_name)),
                                 5) * 100 + 100),
             0, cluster.node_groups) + 150)

\* one EKS cluster (diagram_generator_drawio.py 383-460); the clusters of the
\* model have no Fargate profile
DrawEksCluster(b, cluster, ec2_instances, k8s_workloads, region) ==
    LET eks_group == next_id(b.gen)
        b1 == Container(b, <<"EKS", cluster.cluster_name>>, b.locals.eks_x, b.current_y,
                    eks_width(cluster, ec2_instances),
                    150 + Len(cluster.node_groups) * 200, b.vpc_group)
        b2 == Set(Keep(Vertex(b1, <<cluster.cluster_name>>, "eks", 20, 35, eks_group,
                            48, 48),
                       "eks_refs"),
                  "ng_x", 20)
        b3 == Fold(LAMBDA st, ng :
                      DrawNodeGroup(st, ng, cluster.cluster_name,
                          get_eks_node_instances(ec2_instances, cluster.cluster_name,
                                                 ng.nodegroup_name),
                          k8s_workloads, eks_group, region),
                   b2, cluster.node_groups)
    IN Step(b3, "eks_x", eks_width(cluster, ec2_instances) + 30)

\* Row 3: EKS clusters (diagram_generator_drawio.py 378-463)
Row3_Eks(b, vpc_eks, ec2_instances, k8s_workloads, region) ==
    NextRow(Assign(Fold(LAMBDA st, cluster :
                           DrawEksCluster(st, cluster, ec2_instances, k8s_workloads,
                                          region),
                        Set(b, "eks_x", 20), vpc_eks),
                   "eks", "eks_refs"),
            450)

\* the running services of a cluster (diagram_generator_drawio.py 483-497)
DrawRunning(b, running_services, ecs_group) ==
    LET running_group == next_id(b.gen)
        b1 == Set(Container(b, <<"Running">>, 100, 25,
                        Len(Take(running_services, 8)) * 70 + 40, 80, ecs_group),
                  "svc_x", 15)
        b2 == NodeRow(b1, Take(running_services, 8), "ecs_service", "svc_x", 20, 65,
                      running_group, 50, 50, "ecs_svc_refs")
    IN IF running_services = <<>> THEN b
       ELSE MoreAt(b2, running_services, 8, "ecs_service", "svc_x", 20, running_group)

\* the stopped services of a cluster (diagram_generator_drawio.py 499-505)
DrawStopped(b, stopped_services, ecs_group) ==
    IF stopped_services = <<>> THEN b
    ELSE NodeRow(Set(Container(b, <<"Stopped">>, 100, 110,
                           Len(Take(stopped_services, 3)) * 60 + 30, 70, ecs_group),
                     "svc_x", 10),
                 Take(stopped_services, 3), "ecs_task", "svc_x", 15, 55,
                 next_id(b.gen), 40, 40, "")

\* one ECS cluster (diagram_generator_drawio.py 470-507)
DrawEcsCluster(b, cluster, running_services, stopped_services) ==
    LET ecs_group == next_id(b.gen)
        ecs_width == Max(350, Len(Take(running_services, 8)) * 70 + 150)
        b1 == Container(b, <<"ECS", cluster.cluster_name>>, b.locals.ecs_x, b.current_y,
                    ecs_width, IF stopped_services # <<>> THEN 200 ELSE 150,
                    b.vpc_group)
        b2 == Keep(Vertex(b1, <<cluster.cluster_name>>, "ecs", 20, 35, ecs_group, 48, 48),
                   "ecs_refs")
    IN Step(DrawStopped(DrawRunning(b2, running_services, ecs_group),
                        stopped_services, ecs_group),
            "ecs_x", ecs_width + 30)

\* Row 4: ECS clusters and their services (diagram_generator_drawio.py 465-511)
Row4_Ecs(b, ecs_list) ==
    NextRow(
        Assign(Assign(Fold(LAMBDA st, cluster :
                              DrawEcsCluster(st, cluster,
                                  SelectSeq(cluster.services,
                                            LAMBDA sv : sv.running_count > 0),
                                  SelectSeq(cluster.services,
                                            LAMBDA sv : sv.running_count = 0)),
                           Set(b, "ecs_x", 20), ecs_list),
                      "ecs", "ecs_refs"),
               "ecs_svcs", "ecs_svc_refs"),
        220)

\* the instance types of the ECS hosts in the order of first occurrence, each
\* with the number of its hosts (diagram_generator_drawio.py 537-541,
\* diagram_generator_detailed.py 456-463)
by_type(ecs_hosts) ==
    LET types == Distinct([i \in DOMAIN ecs_hosts |-> ecs_hosts[i].instance_type])
    IN [k \in DOMAIN types |->
           [instance_type |-> types[k],
            count |-> Len(SelectSeq(ecs_hosts,
                                    LAMBDA i : i.instance_type = types[k]))]]

\* the standalone instances (diagram_generator_drawio.py 514-533)
DrawStandalone(b, standalone) ==
    LET standalone_group == next_id(b.gen)
        b1 == Set(Container(b, <<"EC2 Standalone", Len(standalone)>>, 20, b.current_y,
                        Min(Len(Take(standalone, 10)) * 75 + 40, 800), 100,
                        b.vpc_group),
                  "ec2_x", 15)
        b2 == NodeRow(b1, Take(standalone, 10), "ec2", "ec2_x", 25, 70,
                      standalone_group, 48, 48, "")
    IN IF standalone = <<>> THEN b
       ELSE MoreAt(b2, standalone, 10, "ec2", "ec2_x", 25, standalone_group)

\* the ECS hosts by instance type (diagram_generator_drawio.py 536-550)
DrawEcsHosts(b, ec2_categories) ==
    IF ec2_categories.ecs = <<>> THEN b
    ELSE NodeRow(Set(Container(b, <<"ECS Hosts", Len(ec2_categories.ecs)>>,
                           20 + (IF ec2_categories.standalone # <<>>
                                 THEN Min(Len(Take(ec2_categories.standalone, 10)) * 75
                                          + 40, 800) + 30
                                 ELSE 0),
                           b.current_y, Len(by_type(ec2_categories.ecs)) * 80 + 40, 100,
                           b.vpc_group),
                     "host_x", 15),
                 by_type(ec2_categories.ecs), "ec2_instances", "host_x", 25, 75,
                 next_id(b.gen), 48, 48, "")

\* Row 5: standalone EC2 instances and ECS hosts
\* (diagram_generator_drawio.py 513-552)
Row5_Ec2(b, ec2_categories) ==
    NextRow(DrawEcsHosts(DrawStandalone(b, ec2_categories.standalone), ec2_categories),
            120)

\* Row 6: Elastic Beanstalk (diagram_generator_drawio.py 554-577)
Row6_Beanstalk(b, envs) ==
    IF envs = <<>> THEN b
    ELSE NextRow(
             Assign(NodeRow(Set(Container(b, <<"Elastic Beanstalk">>, 20, b.current_y,
                                      Len(envs) * 100 + 40, 110, b.vpc_group),
                                "eb_x", 15),
                            envs, "beanstalk", "eb_x", 25, 90, next_id(b.gen), 48, 48,
                            "eb_refs"),
                    "beanstalk", "eb_refs"),
             130)

\* a group of the data layer filled from two lists, after which db_x moves on
\* (diagram_generator_drawio.py 586-666)
DrawStore(b, label, group_width, first, first_type, second, second_type, cursor, refs, db_y) ==
    LET store_group == next_id(b.gen)
        b1 == Set(Container(b, label, b.locals.db_x, db_y, group_width, 110, b.vpc_group),
                  cursor, 15)
        b2 == NodeRow(b1, first, first_type, cursor, 25, 80, store_group, 48, 48, refs)
        b3 == NodeRow(b2, second, second_type, cursor, 25, 80, store_group, 48, 48, refs)
    IN IF first = <<>> /\ second = <<>> THEN b
       ELSE Step(b3, "db_x", group_width + 20)

\* Row 7: the data layer (diagram_generator_drawio.py 579-666); a group is
\* drawn when one of its two lists has an element, whatever the slices hold
DrawRds(b, sel) ==
    IF sel.vpc_rds_instances = <<>> /\ sel.vpc_rds_clusters = <<>> THEN b
    ELSE DrawStore(b, <<"RDS / Aurora">>,
                   Min((Len(sel.vpc_rds_instances) + Len(sel.vpc_rds_clusters)) * 85
                       + 40, 600),
                   Take(sel.vpc_rds_instances, 6), "rds",
                   Take(sel.vpc_rds_clusters, 3), "aurora", "rds_x", "rds_refs",
                   b.current_y)

DrawCache(b, sel) ==
    IF sel.vpc_elasticache = <<>> /\ sel.vpc_repl_groups = <<>> THEN b
    ELSE DrawStore(b, <<"ElastiCache">>,
                   Min((Len(sel.vpc_elasticache) + Len(sel.vpc_repl_groups)) * 85 + 40,
                       400),
                   Take(sel.vpc_elasticache, 4), "elasticache",
                   Take(sel.vpc_repl_groups, 3), "elasticache", "cache_x",
                   "cache_refs", b.current_y)

DrawRedshift(b, sel) ==
    IF sel.vpc_redshift_clusters = <<>> /\ sel.vpc_redshift_serverless = <<>> THEN b
    ELSE DrawStore(b, <<"Redshift">>,
                   (Len(sel.vpc_redshift_clusters) + Len(sel.vpc_redshift_serverless))
                   * 85 + 40,
                   sel.vpc_redshift_clusters, "redshift",
                   sel.vpc_redshift_serverless, "redshift", "rs_x", "", b.current_y)

Row7_Data(b, sel) ==
    DrawRedshift(
        Assign(DrawCache(Assign(DrawRds(Set(b, "db_x", 20), sel), "rds", "rds_refs"),
                         sel),
               "cache", "cache_refs"),
        sel)

\* node_refs.get(key, [])
Refs(b, key) == IF key \in DOMAIN b.node_refs THEN b.node_refs[key] ELSE <<>>

\* connections whose target is the cell after the one meant
ConnectToNext(gen, sources, targets) ==
    Fold(LAMBDA g1, s : Fold(LAMBDA g2, tg : add_edge(g2, s, tg + 1), g1, targets),
         gen, sources)

\* for s in sources: for t in targets: add_edge(s, t)
Connect(gen, sources, targets) ==
    Fold(LAMBDA g1, s : Fold(LAMBDA g2, tg : add_edge(g2, s, tg), g1, targets),
         gen, sources)

\* the internet gateway to the load balancers
\* (diagram_generator_drawio.py 674-677)
IgwToAlbs(gen, b) ==
    IF "igw" \in DOMAIN b.node_refs /\ "albs" \in DOMAIN b.node_refs
    THEN Connect(gen, Refs(b, "igw"), Take(Refs(b, "albs"), 5))
    ELSE gen

\* every load balancer connected to the clusters and the services
AllAlbsToClusters(gen, b) ==
    Fold(LAMBDA g1, alb :
            Connect(Connect(g1, <<alb>>, Refs(b, "eks")),
                    <<alb>>, Take(Refs(b, "ecs_svcs"), 3)),
         gen, Refs(b, "albs"))

\* the load balancers to the clusters and the services
\* (diagram_generator_drawio.py 679-684)
AlbsToClusters(gen, b) ==
    Fold(LAMBDA g1, alb :
            Connect(Connect(g1, <<alb>>, Refs(b, "eks")),
                    <<alb>>, Take(Refs(b, "ecs_svcs"), 3)),
         gen, Take(Refs(b, "albs"), 3))

\* the sources to the first n databases and the first n caches
\* (diagram_generator_drawio.py 686-705)
ToData(gen, b, sources, n) ==
    Fold(LAMBDA g1, s :
            Connect(Connect(g1, <<s>>, Take(Refs(b, "rds"), n)),
                    <<s>>, Take(Refs(b, "cache"), n)),
         gen, sources)

\* the connections (diagram_generator_drawio.py 668-705)
AddConnections(b) ==
    [b EXCEPT !.gen =
        ToData(
            ToData(
                ToData(
                    AlbsToClusters(
                        IgwToAlbs(Connect(@, Take(Refs(b, "cloudfront"), 3),
                                          Take(Refs(b, "albs"), 3)),
                                  b),
                        b),
                    b, Refs(b, "eks"), 2),
                b, Refs(b, "ecs"), 2),
            b, Refs(b, "beanstalk"), 1)]

\* the label of an instance of a node group is cut to its length
\* (diagram_generator_drawio.py 431, diagram_generator_detailed.py 364-371),
\* which an instance without a name does not have
nameless_node(sel, ec2_instances) ==
    \E c \in Members(sel.vpc_eks) : \E ng \in Members(c.node_groups) :
        \E inst \in Members(Take(get_eks_node_instances(ec2_instances, c.cluster_name,
                                                       ng.nodegroup_name), 5)) :
            inst.name = None

\* record.get(key, default): the default stands for a missing key only, a
\* key that holds null gives None
attr(record, key, default) == IF key \in DOMAIN record THEN record[key] ELSE default

\* the exception a node group ends the run with, "" when it is drawn: the
\* loop that counts the pods calls private_ip.replace for every instance
\* (diagram_generator_drawio.py 415-417, diagram_generator_detailed.py
\* 349-351), then format_label takes len() of the name of the first five
\* (428, 361)
node_group_raises(ng_instances) ==
    IF \E inst \in Members(ng_instances) : inst.private_ip = None
    THEN "AttributeError"
    ELSE IF \E inst \in Members(Take(ng_instances, 5)) : inst.name = None
    THEN "TypeError"
    ELSE ""

\* svc.get("launch_type", "EC2")[:3] for the first eight running services
\* (diagram_generator_drawio.py 490, diagram_generator_detailed.py 417)
service_raises(svc) ==
    IF attr(svc, "launch_type", <<"E", "C", "2">>) = None THEN "TypeError" ELSE ""

\* env.get("tier_name", <<"W", "e", "b">>)[:6] (diagram_generator_drawio.py 564,
\* diagram_generator_detailed.py 478)
env_raises(env) ==
    IF attr(env, "tier_name", <<"W", "e", "b">>) = None THEN "TypeError" ELSE ""

\* the exceptions of the records with a null field, in the order in which
\* the rows are drawn: EKS node groups, ECS services, Beanstalk environments
null_field_raises(sel, ec2_instances) ==
    SelectSeq(
        Flatten([i \in DOMAIN sel.vpc_eks |->
            [j \in DOMAIN sel.vpc_eks[i].node_groups |->
                node_group_raises(
                    get_eks_node_instances(ec2_instances, sel.vpc_eks[i].cluster_name,
                        sel.vpc_eks[i].node_groups[j].nodegroup_name))]])
        \o Flatten([i \in DOMAIN sel.vpc_ecs |->
               LET running_services ==
                       SelectSeq(sel.vpc_ecs[i].services,
                                 LAMBDA sv : sv.running_count > 0)
               IN [k \in DOMAIN Take(running_services, 8) |->
                      service_raises(running_services[k])]])
        \o [k \in DOMAIN sel.vpc_beanstalk_envs |->
               env_raises(sel.vpc_beanstalk_envs[k])],
        LAMBDA e : e # "")

\* the rows and the connections (diagram_generator_drawio.py 304-705)
DrawioLayout(rd, vpc_data, k8s_workloads, cf_data, sel, ec2_categories, vpc_name, related) ==
    AddConnections(
        Row7_Data(
            Row6_Beanstalk(
                Row5_Ec2(
                    Row4_Ecs(
                        Row3_Eks(
                            Row2_LoadBalancers(
                                Row1_Gateways(Row0_CloudFront(NewLayout, cf_data, related),
                                              vpc_data, vpc_name),
                                sel.vpc_albs, sel.vpc_nlbs),
                            sel.vpc_eks, rd.ec2_instances, k8s_workloads, rd.region),
                        sel.vpc_ecs),
                    ec2_categories),
                sel.vpc_beanstalk_envs),
            sel)).gen

\* the file written from the generator (diagram_generator_drawio.py 707-711)
Written(gen) == [raised |-> "", cells |-> gen.cells, edges |-> gen.edges]

\* the cells and the edges written to the file, or the exception that ends
\* the run: AttributeError of categorize_ec2_instances, or the exception of
\* the first record with a null field that a row reads
DrawioDiagram(rd, vpc_data, k8s_workloads, cf_data, sel, ec2_categories, vpc_name, related) ==
    IF "raised" \in DOMAIN ec2_categories
    THEN [raised |-> "AttributeError", cells |-> <<>>, edges |-> <<>>]
    ELSE IF null_field_raises(sel, rd.ec2_instances) # <<>>
    THEN [raised |-> Head(null_field_raises(sel, rd.ec2_instances)),
          cells |-> <<>>, edges |-> <<>>]
    ELSE Written(DrawioLayout(rd, vpc_data, k8s_workloads, cf_data, sel,
                              ec2_categories, vpc_name, related))

\* the resources of the VPC (diagram_generator_drawio.py 240-300)
DrawioSelected(rd, vpc_data, k8s_workloads, cf_data, lb_order, sel, vpc_name) ==
    DrawioDiagram(rd, vpc_data, k8s_workloads, cf_data, sel,
                  categorize_ec2_instances(sel.vpc_ec2, sel.vpc_ecs, sel.vpc_eks),
                  vpc_name,
                  vpc_cloudfront(cf_data, sel.vpc_albs, sel.vpc_nlbs, vpc_name, lb_order))

\* generate_drawio_diagram (diagram_generator_drawio.py 230-711)
generate_drawio_diagram(rd, vpc_data, k8s_workloads, cf_data, lb_order) ==
    DrawioSelected(rd, vpc_data, k8s_workloads, cf_data, lb_order,
                   Selection("drawio", rd, vpc_data),
                   get_resource_name("drawio", vpc_data, "vpc_id"))

----------------------------------------------------------------------------
(* The graph of generate_detailed_vpc_diagram                               *)
(* (diagram_generator_detailed.py): the clusters with their parents, the    *)
(* nodes with their clusters and the edges, each named by its rank in the   *)
(* order of creation (the library names them by random identifiers, which   *)
(* are no part of the layout). The builder state d holds the graph G, the   *)
(* stack of the clusters whose with block is open, and the lists of nodes   *)
(* the function collects for the connections.                               *)

NodeLists ==
    {"igw_nodes", "nat_nodes", "alb_nodes", "nlb_nodes", "eks_cluster_nodes",
     "eks_nodegroup_nodes", "ecs_cluster_nodes", "ecs_service_nodes",
     "standalone_nodes", "ecs_ec2_nodes", "beanstalk_nodes", "rds_nodes",
     "cache_nodes", "redshift_nodes", "ec2_nodes", "ecs_nodes", "eks_nodes"}

NewGraph ==
    [G |-> [clusters |-> <<>>, nodes |-> <<>>, edges |-> <<>>], open |-> <<>>,
     lists |-> [l \in NodeLists |-> <<>>]]

last_cluster(d) == IF d.open = <<>> THEN 0 ELSE d.open[Len(d.open)]

\* with Cluster(label): the new cluster is Len(clusters) + 1, inside the
\* cluster whose block is open
Cluster(d, label) ==
    [d EXCEPT !.G.clusters = Append(@, [value |-> label, parent |-> last_cluster(d)]),
              !.open = Append(@, Len(d.G.clusters) + 1)]

\* the end of a with block
EndCluster(d) == [d EXCEPT !.open = SubSeq(@, 1, Len(@) - 1)]

\* a node of the diagrams library created inside the open cluster
NewNode(d, kind, label) ==
    [d EXCEPT !.G.nodes = Append(@, [kind |-> kind, value |-> label,
                                     parent |-> last_cluster(d)])]

last_node(d) == Len(d.G.nodes)

\* nodes.append(Node(label))
Collect(d, kind, label, list) ==
    [d EXCEPT !.G.nodes = Append(@, [kind |-> kind, value |-> label,
                                     parent |-> last_cluster(d)]),
              !.lists[list] = Append(@, Len(d.G.nodes) + 1)]

last_of(d, list) == d.lists[list][Len(d.lists[list])]

\* a >> b and a - b
Link(d, source, target) ==
    [d EXCEPT !.G.edges = Append(@, [source |-> source, target |-> target])]

\* one node per item inside the open cluster
GraphRow(d, items, kind) ==
    Fold(LAMBDA st, item : NewNode(st, kind, <<kind, item>>), d, items)

\* one node per item inside the open cluster; the nodes are collected
CollectRow(d, items, kind, list) ==
    Fold(LAMBDA st, item : Collect(st, kind, <<kind, item>>, list), d, items)

\* the node that stands for the items beyond the limit
MoreNode(d, items, kind, limit) ==
    IF Len(items) > limit THEN NewNode(d, kind, <<"more", Len(items) - limit>>) ELSE d

\* for s in sources: for t in targets: s >> t
LinkAll(d, sources, targets) ==
    Fold(LAMBDA g1, s : Fold(LAMBDA g2, tg : Link(g2, s, tg), g1, targets), d, sources)

\* for s in sources: s >> each list of targets in turn
LinkEach(d, sources, target_lists) ==
    Fold(LAMBDA g, s : Fold(LAMBDA h, targets : LinkAll(h, <<s>>, targets),
                            g, target_lists),
         d, sources)

\* the region, the VPC and the gateways of the VPC
\* (diagram_generator_detailed.py 267-283); the blocks of the region and the
\* VPC stay open
DetailedGateways(rd, vpc_data, vpc_name) ==
    EndCluster(
        CollectRow(
            CollectRow(
                Cluster(Cluster(Cluster(NewGraph, <<rd.region>>),
                                <<vpc_name, vpc_data.cidr_block>>),
                        <<"Gateways">>),
                vpc_data.internet_gateways, "igw", "igw_nodes"),
            SelectSeq(vpc_data.nat_gateways, LAMBDA nat : nat.state = "available"),
            "nat", "nat_nodes"))

\* the load balancers (diagram_generator_detailed.py 285-296)
DetailedLoadBalancers(d, sel) ==
    IF sel.vpc_albs # <<>> \/ sel.vpc_nlbs # <<>>
    THEN EndCluster(
             CollectRow(CollectRow(Cluster(d, <<"Load Balancers">>),
                                   sel.vpc_albs, "alb", "alb_nodes"),
                        sel.vpc_nlbs, "nlb", "nlb_nodes"))
    ELSE d

\* a node of a node group with its pods (diagram_generator_detailed.py 362-388)
DetailedEksNode(d, inst, pods) ==
    EndCluster(
        MoreNode(GraphRow(NewNode(Cluster(d, <<inst.name, inst.private_ip, Len(pods)>>),
                              "ec2", <<inst.instance_type>>),
                      Take(pods, 5), "pod"),
             pods, "pod", 5))

\* the node s of the list is connected to the node created last
LinkLast(d, list) == Link(d, last_of(d, list), last_node(d))

\* a node group of a cluster (diagram_generator_detailed.py 340-393); the
\* node of the cluster is the last of eks_cluster_nodes
DetailedNodeGroup(d, cluster, ng, ng_instances, k8s_workloads, region) ==
    EndCluster(
        MoreNode(Fold(LAMBDA st, inst :
                     DetailedEksNode(st, inst,
                         app_pods(node_pods(k8s_workloads, cluster.cluster_name, inst,
                                            region))),
                  LinkLast(Collect(Cluster(d, <<ng.nodegroup_name, Len(ng_instances)>>),
                                   "ec2_instances", <<ng.nodegroup_name>>,
                                   "eks_nodegroup_nodes"),
                           "eks_cluster_nodes"),
                  Take(ng_instances, 5)),
             ng_instances, "ec2", 5))

\* the EKS clusters (diagram_generator_detailed.py 320-393)
DetailedEks(d, eks_list, ec2_instances, k8s_workloads, region) ==
    Fold(LAMBDA st, cluster :
            EndCluster(
                Fold(LAMBDA h, ng :
                        DetailedNodeGroup(h, cluster, ng,
                            get_eks_node_instances(ec2_instances, cluster.cluster_name,
                                                   ng.nodegroup_name),
                            k8s_workloads, region),
                     Collect(Cluster(st, <<"EKS", cluster.cluster_name>>),
                             "eks", <<cluster.cluster_name>>, "eks_cluster_nodes"),
                     cluster.node_groups)),
         d, eks_list)

\* the running services of a cluster (diagram_generator_detailed.py 410-425)
DetailedRunning(d, running_services) ==
    IF running_services = <<>> THEN d
    ELSE EndCluster(
             MoreNode(Fold(LAMBDA st, svc :
                          LinkLast(Collect(st, "ecs_service", <<"ecs_service", svc>>,
                                           "ecs_service_nodes"),
                                   "ecs_cluster_nodes"),
                       Cluster(d, <<"Running">>), Take(running_services, 8)),
                  running_services, "ecs_service", 8))

\* the stopped services of a cluster (diagram_generator_detailed.py 427-432)
DetailedStopped(d, stopped_services) ==
    IF stopped_services = <<>> THEN d
    ELSE EndCluster(GraphRow(Cluster(d, <<"Stopped">>), Take(stopped_services, 3),
                             "ecs_task"))

\* the ECS clusters (diagram_generator_detailed.py 395-432)
DetailedEcs(d, ecs_list) ==
    Fold(LAMBDA st, cluster :
            EndCluster(
                DetailedStopped(
                    DetailedRunning(
                        Collect(Cluster(st, <<"ECS", cluster.cluster_name>>),
                                "ecs", <<cluster.cluster_name>>, "ecs_cluster_nodes"),
                        SelectSeq(cluster.services, LAMBDA sv : sv.running_count > 0)),
                    SelectSeq(cluster.services, LAMBDA sv : sv.running_count = 0))),
         d, ecs_list)

\* a cluster that is drawn only for a list with elements, with one node per
\* element of the first limit elements and a node for the rest
LimitedCluster(d, label, items, kind, limit, list) ==
    IF items = <<>> THEN d
    ELSE EndCluster(MoreNode(CollectRow(Cluster(d, label), Take(items, limit), kind, list),
                         items, kind, limit))

\* the instances outside the node groups and the Beanstalk environments
\* (diagram_generator_detailed.py 434-487)
DetailedInstances(d, sel, ec2_categories) ==
    LimitedCluster(
        LimitedCluster(
            LimitedCluster(d, <<"EC2 Standalone", Len(ec2_categories.standalone)>>,
                           ec2_categories.standalone, "ec2", 10, "standalone_nodes"),
            <<"ECS Hosts", Len(ec2_categories.ecs)>>, by_type(ec2_categories.ecs),
            "ec2_instances", Len(ec2_categories.ecs), "ecs_ec2_nodes"),
        <<"Elastic Beanstalk">>, sel.vpc_beanstalk_envs, "beanstalk",
        Len(sel.vpc_beanstalk_envs), "beanstalk_nodes")

\* a cluster of the data layer filled from two lists
\* (diagram_generator_detailed.py 526-561)
DetailedPair(d, label, first, second, kind, list) ==
    IF first = <<>> /\ second = <<>> THEN d
    ELSE EndCluster(CollectRow(CollectRow(Cluster(d, label), first, kind, list),
                               second, kind, list))

\* the data layer (diagram_generator_detailed.py 489-561)
DetailedData(d, sel) ==
    IF /\ sel.vpc_rds_instances = <<>> /\ sel.vpc_rds_clusters = <<>>
       /\ sel.vpc_elasticache = <<>> /\ sel.vpc_repl_groups = <<>>
       /\ sel.vpc_redshift_clusters = <<>> /\ sel.vpc_redshift_serverless = <<>>
    THEN d
    ELSE EndCluster(
             DetailedPair(
                 DetailedPair(
                     LimitedCluster(
                         LimitedCluster(Cluster(d, <<"Data Layer">>), <<"RDS">>,
                                        sel.vpc_rds_instances, "rds", 6, "rds_nodes"),
                         <<"Aurora">>, sel.vpc_rds_clusters, "aurora",
                         Len(sel.vpc_rds_clusters), "rds_nodes"),
                     <<"ElastiCache">>, sel.vpc_elasticache, sel.vpc_repl_groups,
                     "elasticache", "cache_nodes"),
                 <<"Redshift">>, sel.vpc_redshift_clusters,
                 sel.vpc_redshift_serverless, "redshift", "redshift_nodes"))

\* the connections (diagram_generator_detailed.py 563-604)
DetailedConnections(d) ==
    LinkEach(
        LinkAll(
            LinkEach(
                LinkEach(
                    LinkEach(
                        LinkEach(d, d.lists.igw_nodes,
                                 <<Take(d.lists.alb_nodes, 5), Take(d.lists.nlb_nodes, 3)>>),
                        Take(d.lists.alb_nodes, 3),
                        <<Take(d.lists.ecs_service_nodes, 3), d.lists.eks_cluster_nodes>>),
                    d.lists.ecs_cluster_nodes,
                    <<Take(d.lists.rds_nodes, 2), Take(d.lists.cache_nodes, 2)>>),
                d.lists.eks_cluster_nodes,
                <<Take(d.lists.rds_nodes, 2), Take(d.lists.cache_nodes, 2),
                  Take(d.lists.redshift_nodes, 1)>>),
            Take(d.lists.alb_nodes, 2), Take(d.lists.beanstalk_nodes, 2)),
        d.lists.beanstalk_nodes,
        <<Take(d.lists.rds_nodes, 1), Take(d.lists.cache_nodes, 1)>>)

\* the graph handed to the renderer (diagram_generator_detailed.py 262-604)
DetailedGraph(rd, vpc_data, k8s_workloads, sel, ec2_categories) ==
    DetailedConnections(
        DetailedData(
            DetailedInstances(
                DetailedEcs(
                    DetailedEks(
                        DetailedLoadBalancers(
                            DetailedGateways(rd, vpc_data,
                                get_resource_name("detailed", vpc_data, "vpc_id")),
                            sel),
                        sel.vpc_eks, rd.ec2_instances, k8s_workloads, rd.region),
                    sel.vpc_ecs),
                sel, ec2_categories),
            sel)).G

\* the graph, or the exception that ends the run: the categories of the
\* instances are computed before the graph is opened
DetailedDiagram(rd, vpc_data, k8s_workloads, sel, ec2_categories) ==
    IF "raised" \in DOMAIN ec2_categories
    THEN [raised |-> "AttributeError", clusters |-> <<>>, nodes |-> <<>>, edges |-> <<>>]
    ELSE IF null_field_raises(sel, rd.ec2_instances) # <<>>
    THEN [raised |-> Head(null_field_raises(sel, rd.ec2_instances)),
          clusters |-> <<>>, nodes |-> <<>>, edges |-> <<>>]
    ELSE [raised |-> ""] @@ DetailedGraph(rd, vpc_data, k8s_workloads, sel, ec2_categories)

\* generate_detailed_vpc_diagram (diagram_generator_detailed.py 155-604): the
\* resources of the VPC are selected (173-225), then the graph is built
DetailedSelected(rd, vpc_data, k8s_workloads, sel) ==
    DetailedDiagram(rd, vpc_data, k8s_workloads, sel,
                    categorize_ec2_instances(sel.vpc_ec2, sel.vpc_ecs, sel.vpc_eks))

generate_detailed_vpc_diagram(rd, vpc_data, k8s_workloads) ==
    DetailedSelected(rd, vpc_data, k8s_workloads, Selection("detailed", rd, vpc_data))

----------------------------------------------------------------------------
(* LayoutSpec: the detailed and the draw.io generator each run Runs times   *)
(* on the same inventory and workload documents, for the VPC of the region. *)

Runs == 2

LayoutVpc(igws) ==
    [vpc_id |-> <<"v", "1">>, name |-> <<"P", "r", "o", "d", "-", "A">>, cidr_block |-> "10.0.0.0/16",
     subnets |-> <<[subnet_id |-> "s1", public |-> FALSE]>>,
     internet_gateways |-> [k \in 1..igws |-> [internet_gateway_id |-> k]],
     nat_gateways |-> <<[nat_gateway_id |-> "nat-1", state |-> "available"],
                        [nat_gateway_id |-> "nat-2", state |-> "pending"]>>]

LayoutInstance(id, name, tags, private_ip) ==
    [instance_id |-> id, vpc_id |-> <<"v", "1">>, state |-> "running", name |-> name,
     tags |-> tags, instance_type |-> "t3.large", private_ip |-> private_ip]

\* the instances of the VPC: a node of the node group, a host of the ECS
\* cluster and a plain instance
LayoutFleet ==
    <<LayoutInstance("i-1", <<"n", "o", "d", "e">>, EksNodeTags, <<"1", "0", ".", "0", ".", "0", ".", "1">>),
      LayoutInstance("i-2", <<"h", "o", "s", "t">>,
                     <<<<STR_ecs_cluster, <<"j", "o", "b", "s">>>>>>, <<"1", "0", ".", "0", ".", "0", ".", "2">>),
      LayoutInstance("i-3", <<"w", "e", "b">>, <<>>, <<"1", "0", ".", "0", ".", "0", ".", "3">>)>>

LayoutLoadBalancers ==
    LET alb(k) == [load_balancer_name |-> <<"alb", k>>, vpc_id |-> <<"v", "1">>,
                   dns_name |-> IF k = 1 THEN <<"a", "l", "b", "1", ".", "a", "w", "s">> ELSE <<"a", "l", "b", "2", ".", "a", "w", "s">>]
        nlb == [load_balancer_name |-> <<"nlb", 1>>, vpc_id |-> <<"v", "1">>,
                dns_name |-> <<"n", "l", "b", "1", ".", "a", "w", "s">>]
    IN {[application_load_balancers |-> <<>>, network_load_balancers |-> <<>>,
         classic_load_balancers |-> <<>>],
        [application_load_balancers |-> <<alb(1)>>, network_load_balancers |-> <<>>,
         classic_load_balancers |-> <<>>],
        [application_load_balancers |-> <<alb(1), alb(2)>>,
         network_load_balancers |-> <<nlb>>, classic_load_balancers |-> <<>>]}

\* the data stores of the region: none, a cache cluster alone (which carries
\* no VPC id), or one of every kind
LayoutData ==
    LET cache == [cache_cluster_id |-> <<"c", "a", "c", "h", "e", "-", "1">>, cache_subnet_group_name |-> <<>>]
    IN {[rds |-> [instances |-> <<>>, clusters |-> <<>>],
         elasticache |-> [clusters |-> <<>>, replication_groups |-> <<>>],
         redshift |-> [clusters |-> <<>>, serverless_workgroups |-> <<>>]],
        [rds |-> [instances |-> <<>>, clusters |-> <<>>],
         elasticache |-> [clusters |-> <<cache>>, replication_groups |-> <<>>],
         redshift |-> [clusters |-> <<>>, serverless_workgroups |-> <<>>]],
        [rds |-> [instances |-> <<[db_instance_identifier |-> "db-1",
                                   vpc_id |-> <<"v", "1">>]>>,
                  clusters |-> <<[db_cluster_identifier |-> "aurora-1",
                                  vpc_id |-> <<"v", "1">>]>>],
         elasticache |-> [clusters |-> <<cache>>,
                          replication_groups |->
                              <<[replication_group_id |-> <<"r", "g", "-", "1">>]>>],
         redshift |-> [clusters |-> <<[cluster_identifier |-> "rs-1",
                                       vpc_id |-> <<"v", "1">>]>>,
                       serverless_workgroups |-> <<>>]]}

STR_eu_west_1 == <<"e", "u", "-", "w", "e", "s", "t", "-", "1">>

\* the region entry of the inventory document
LayoutRegion(igws, instances, lbs, eks, ecs, data, envs) ==
    [region |-> STR_eu_west_1,
     vpcs |-> <<LayoutVpc(igws)>>,
     ec2_instances |-> instances,
     ecs_clusters |-> ecs,
     eks_clusters |-> eks,
     rds |-> data.rds,
     elasticache |-> data.elasticache,
     redshift |-> data.redshift,
     load_balancers |-> lbs,
     elasticbeanstalk |-> [environments |-> envs]]

\* the "cloudfront" entry of the inventory document: one distribution in
\* front of the first load balancer
LayoutCloudFront ==
    {[distributions |-> <<>>],
     [distributions |-> <<[id |-> "E1", origins |-> <<[domain_name |-> <<"a", "l", "b", "1", ".", "a", "w", "s">>]>>]>>]}

\* the name under which the API server lists the node 10.0.0.1 of eu-west-1
STR_node_1 ==
    <<"i", "p", "-", "1", "0", "-", "0", "-", "0", "-", "1", ".",
      "e", "u", "-", "w", "e", "s", "t", "-", "1", ".",
      "c", "o", "m", "p", "u", "t", "e", ".", "i", "n", "t", "e", "r", "n", "a", "l">>

\* the pods of the node 10.0.0.1 of the cluster "apps" in the workload document
LayoutPods ==
    Put(EmptyDict, <<"a", "p", "p", "s">>,
        [pods_by_node |->
             Put(EmptyDict, STR_node_1,
                 <<[name |-> <<"a", "p", "i">>, status |-> "Running",
                    namespace |-> "default"],
                   [name |-> <<"d", "n", "s">>, status |-> "Running",
                    namespace |-> "kube-system"],
                   [name |-> <<"j", "o", "b">>, status |-> "Pending",
                    namespace |-> "default"]>>)])

LayoutInit ==
    /\ \E igws \in {0, 2}, lbs \in LayoutLoadBalancers,
          compute \in {<<"none", "none">>, <<"fleet", "none">>, <<"fleet", "pods">>,
                       <<"nameless", "none">>},
          eks \in {<<>>, <<EksCluster>>},
          ecs \in {<<>>, <<EcsCluster(<<"j", "o", "b", "s">>, <<Service("api", <<"s1">>, 1),
                                                Service("batch", <<"s1">>, 0)>>)>>},
          data \in LayoutData,
          envs \in {<<>>, <<[environment_name |-> <<"p", "r", "o", "d", "-", "a", "-", "w", "e", "b">>,
                            application_name |-> <<"s", "h", "o", "p">>]>>},
          cf_data \in LayoutCloudFront :
         LET instances ==
                 CASE compute[1] = "none" -> <<>>
                   [] compute[1] = "fleet" -> LayoutFleet
                   [] compute[1] = "nameless" ->
                          <<LayoutInstance("i-1", None, <<>>, <<"1", "0", ".", "0", ".", "0", ".", "1">>)>>
         IN lin = [inventory |->
                       [regions |-> <<LayoutRegion(igws, instances, lbs, eks, ecs,
                                                   data, envs)>>,
                        cloudfront |-> cf_data],
                   k8s_workloads |-> IF compute[2] = "pods" THEN LayoutPods
                                     ELSE EmptyDict]
    /\ lpc = "loaded"
    /\ layouts = [detailed |-> <<>>, drawio |-> <<>>]
    /\ args = NoArgs /\ cloud = 0
    /\ OnlyLayouts

\* diagram_generator_detailed.py main (607-703): one more run on the documents
LayoutDetailed ==
    /\ lpc = "loaded" /\ Len(layouts.detailed) < Runs
    /\ LET rd == lin.inventory.regions[1]
       IN layouts' = [layouts EXCEPT !.detailed =
                         Append(@, generate_detailed_vpc_diagram(rd, rd.vpcs[1],
                                                                lin.k8s_workloads))]
    /\ UNCHANGED <<lpc, lin, notLayoutVars>>

\* diagram_generator_drawio.py main (714-784): one more run on the documents,
\* in a process whose hash seed gives the set of DNS names some order
LayoutDrawio ==
    /\ lpc = "loaded" /\ Len(layouts.drawio) < Runs
    /\ LET rd == lin.inventory.regions[1]
           sel == Selection("drawio", rd, rd.vpcs[1])
       IN \E lb_order \in Orders(vpc_lb_dns(sel.vpc_albs, sel.vpc_nlbs)) :
             layouts' = [layouts EXCEPT !.drawio =
                            Append(@, generate_drawio_diagram(rd, rd.vpcs[1],
                                          lin.k8s_workloads, lin.inventory.cloudfront,
                                          lb_order))]
    /\ UNCHANGED <<lpc, lin, notLayoutVars>>

LayoutNext == LayoutDetailed \/ LayoutDrawio

LayoutSpec == LayoutInit /\ [][LayoutNext]_vars

----------------------------------------------------------------------------
(* Properties of the layouts                                                *)

LayoutRd == lin.inventory.regions[1]
LayoutVpcData == LayoutRd.vpcs[1]

\* the cells of a draw.io layout that are nodes, and its VPC group
NodeIds(layout) ==
    {layout.cells[k].id : k \in {i \in DOMAIN layout.cells :
                                    layout.cells[i].style # "group"}}
VpcGroupId(layout) ==
    layout.cells[CHOOSE k \in DOMAIN layout.cells :
                     /\ layout.cells[k].style = "group"
                     /\ layout.cells[k].parent = 1
                     /\ Len(layout.cells[k].value) = 2].id

\* no edge of any layout has a source or a target that is not a node of
\* the same layout
EdgesJoinEmittedNodes ==
    /\ \A r \in DOMAIN layouts.drawio :
           LET layout == layouts.drawio[r]
           IN \A e \in Members(layout.edges) :
                 e.source \in NodeIds(layout) /\ e.target \in NodeIds(layout)
    /\ \A r \in DOMAIN layouts.detailed :
           LET layout == layouts.detailed[r]
           IN \A e \in Members(layout.edges) :
                 e.source \in DOMAIN layout.nodes /\ e.target \in DOMAIN layout.nodes

\* the generator selected no load balancer and no compute resource for the VPC
NoLoadBalancerNoCompute(g) ==
    LET sel == Selection(g, LayoutRd, LayoutVpcData)
    IN /\ sel.vpc_albs = <<>> /\ sel.vpc_nlbs = <<>>
       /\ sel.vpc_ec2 = <<>> /\ sel.vpc_eks = <<>> /\ sel.vpc_ecs = <<>>
       /\ sel.vpc_beanstalk_envs = <<>>

\* the generator selected no data store for the VPC
NoDataStore(g) ==
    LET sel == Selection(g, LayoutRd, LayoutVpcData)
    IN /\ sel.vpc_rds_instances = <<>> /\ sel.vpc_rds_clusters = <<>>
       /\ sel.vpc_elasticache = <<>> /\ sel.vpc_repl_groups = <<>>
       /\ sel.vpc_redshift_clusters = <<>> /\ sel.vpc_redshift_serverless = <<>>

\* generation succeeded, the VPC group holds the gateways group and nothing
\* else, and there is no edge
OnlyGateways(g, layout) ==
    /\ layout.raised = ""
    /\ layout.edges = <<>>
    /\ IF g = "drawio"
       THEN \E k \in DOMAIN layout.cells :
               /\ layout.cells[k].style = "group"
               /\ layout.cells[k].value = <<"Gateways">>
               /\ \A i \in DOMAIN layout.cells :
                      layout.cells[i].parent = VpcGroupId(layout) <=> i = k
       ELSE \* the region cluster is 1, the VPC cluster 2
            /\ \E k \in DOMAIN layout.clusters :
                  /\ layout.clusters[k].value = <<"Gateways">>
                  /\ \A i \in DOMAIN layout.clusters :
                         layout.clusters[i].parent = 2 <=> i = k
            /\ \A n \in DOMAIN layout.nodes : layout.nodes[n].parent # 2

----------------------------------------------------------------------------
(* K8sSpec: collect_k8s_workloads.py main() and                             *)
(* K8sCollector.collect_cluster_workloads (collectors/k8s_collector.py).    *)

\* the list calls of collect_cluster_workloads, in the order of the code
ListCalls == <<"namespaces", "deployments", "pods", "services">>

\* how a list call ends: it returns, it raises ApiException (the API server
\* answered with an error status), or it raises another exception (the
\* server was not reached, a field of the answer is missing)
CallOutcomes == {"ok", "ApiException", "Exception"}

\* a pod as list_pod_for_all_namespaces returns it; node_name is None while
\* the pod is not scheduled
Pod(name, namespace, node_name, status) ==
    [name |-> name, namespace |-> namespace, node_name |-> node_name, status |-> status]

STR_unscheduled == <<"u", "n", "s", "c", "h", "e", "d", "u", "l", "e", "d">>

\* a loop that keeps the last pod of every node only
collect_pods_last_per_node(items) ==
    Fold(LAMBDA st, pod :
            LET node_name == IF pod.node_name = None THEN STR_unscheduled
                             ELSE pod.node_name
            IN [pods |-> Append(st.pods, pod),
                pods_by_node |-> Put(st.pods_by_node, node_name, <<pod>>)],
         [pods |-> <<>>, pods_by_node |-> EmptyDict], items)

\* the loop over pod_list.items (k8s_collector.py 120-142): pod_info is
\* appended to result["pods"] and to the group of pod.spec.node_name or
\* "unscheduled"
collect_pods(items) ==
    Fold(LAMBDA st, pod :
            LET node_name == IF pod.node_name = None THEN STR_unscheduled
                             ELSE pod.node_name
                group == IF node_name \in DOMAIN st.pods_by_node
                         THEN st.pods_by_node[node_name] ELSE <<>>
            IN [pods |-> Append(st.pods, pod),
                pods_by_node |-> Put(st.pods_by_node, node_name, Append(group, pod))],
         [pods |-> <<>>, pods_by_node |-> EmptyDict], items)

\* the items a list call returns: for the pods, two pods of one node and a
\* pod that is not scheduled
Items(call) ==
    IF call = "pods"
    THEN <<Pod(<<"a", "p", "i">>, "default", <<"n", "1">>, "Running"),
           Pod(<<"d", "n", "s">>, "kube-system", <<"n", "1">>, "Running"),
           Pod(<<"j", "o", "b">>, "default", None, "Pending")>>
    ELSE <<[name |-> call]>>

\* what the loop over the pods of the cluster leaves
CollectedPods == collect_pods(Items("pods"))

\* the result before the first call (k8s_collector.py 63-71)
NewResult(cluster_name) ==
    [cluster_name |-> cluster_name, namespaces |-> <<>>, deployments |-> <<>>,
     pods |-> <<>>, services |-> <<>>, pods_by_node |-> EmptyDict, error |-> None]

\* collect_cluster_workloads (k8s_collector.py 58-177).  clients is what
\* _create_k8s_client returns, outcome[call] how each list call would end.
\* The handler of a list call catches ApiException and only logs it; any
\* other exception leaves the outer try block, whose handler sets "error".
\* calls are the list calls sent, with their outcomes.
collect_cluster_workloads(cluster_info, clients, outcome) ==
    LET result == NewResult(cluster_info.cluster_name)
        step(st, call) ==
            IF st.left THEN st
            ELSE LET sent == Append(st.calls, [call |-> call, outcome |-> outcome[call]])
                 IN CASE outcome[call] = "ok" ->
                            [st EXCEPT !.calls = sent,
                                 !.result =
                                     IF call = "pods"
                                     THEN [st.result EXCEPT
                                              !.pods = CollectedPods.pods,
                                              !.pods_by_node = CollectedPods.pods_by_node]
                                     ELSE [st.result EXCEPT ![call] = Items(call)]]
                      [] outcome[call] = "ApiException" -> [st EXCEPT !.calls = sent]
                      [] outcome[call] = "Exception" ->
                            [st EXCEPT !.calls = sent, !.left = TRUE,
                                 !.result = [st.result EXCEPT !.error = <<"Exception">>]]
    IN IF clients = "none"
       THEN [result |-> [result EXCEPT
                            !.error = <<"Failed to create Kubernetes client">>],
             calls |-> <<>>]
       ELSE LET st == Fold(step, [result |-> result, calls |-> <<>>, left |-> FALSE],
                           ListCalls)
            IN [result |-> st.result, calls |-> st.calls]

\* the clusters of the inventory, each with the region it was found in
\* (get_k8s_clusters_from_inventory, collect_k8s_workloads.py 50-59)
K8sClusters ==
    {[cluster_name |-> "prod", region |-> "eu-west-1"],
     [cluster_name |-> "prod", region |-> "us-east-1"],
     [cluster_name |-> "dev", region |-> "eu-west-1"]}

MaxClusters == 2

\* no cluster is twice in the inventory
K8sClusterLists ==
    UNION {{l \in [1..n -> K8sClusters] : \A i, j \in 1..n : i # j => l[i] # l[j]} :
           n \in 1..MaxClusters}

K8sInit ==
    /\ kpc = "loop" /\ k8s_clusters \in K8sClusterLists /\ ki = 1
    /\ all_workloads = EmptyDict /\ api_calls = <<>> /\ workloads_file = EmptyDict
    /\ args = NoArgs /\ cloud = 0
    /\ OnlyK8s

\* one turn of the loop of main (collect_k8s_workloads.py 98-124); the
\* except branch of main is never taken, collect_cluster_workloads catches
\* every Exception itself
CollectCluster ==
    /\ kpc = "loop" /\ ki <= Len(k8s_clusters)
    /\ \E clients \in {"clients", "none"}, outcome \in [Members(ListCalls) -> CallOutcomes] :
         LET cluster == k8s_clusters[ki]
             got == collect_cluster_workloads(cluster, clients, outcome)
             workloads == Update(got.result, [region |-> cluster.region])
         IN /\ all_workloads' = Put(all_workloads, cluster.cluster_name, workloads)
            /\ api_calls' = Append(api_calls, got.calls)
    /\ ki' = ki + 1
    /\ UNCHANGED <<kpc, k8s_clusters, workloads_file, notK8sVars>>

\* json.dump(all_workloads) after the loop (collect_k8s_workloads.py 126-133)
WriteWorkloads ==
    /\ kpc = "loop" /\ ki > Len(k8s_clusters)
    /\ workloads_file' = all_workloads
    /\ kpc' = "written"
    /\ UNCHANGED <<k8s_clusters, ki, all_workloads, api_calls, notK8sVars>>

K8sNext == CollectCluster \/ WriteWorkloads

K8sSpec == K8sInit /\ [][K8sNext]_vars

\* the loop is never suspended for ever
K8sFairSpec == K8sSpec /\ WF_vars(K8sNext)

----------------------------------------------------------------------------
(* Properties of the collection of workloads                                *)

\* the document written has an entry for the cluster
HasEntry(cluster) ==
    \E name \in DOMAIN workloads_file :
        /\ workloads_file[name].cluster_name = cluster.cluster_name
        /\ workloads_file[name].region = cluster.region

\* C16: for any list of clusters and whatever connections and list calls
\* fail, the collector processes every cluster of the list and the document
\* it writes has an entry for every one of them.
C16_EveryClusterGetsAnEntry ==
    <>(/\ kpc = "written"
       /\ Len(api_calls) = Len(k8s_clusters)
       /\ \A i \in DOMAIN k8s_clusters : HasEntry(k8s_clusters[i]))

\* the cluster collected last, its entry and the list calls sent to it
LastCluster == k8s_clusters[Len(api_calls)]
LastEntry == all_workloads[LastCluster.cluster_name]
LastCalls == api_calls[Len(api_calls)]

\* C19: when a list call fails for a cluster, the error field of the entry
\* of the cluster is set, the remaining list calls are still sent, and the
\* entry keeps what the list calls that succeeded returned.
C19_ListFailureRecordedAndContinued ==
    (kpc = "loop" /\ api_calls # <<>>) =>
        ((\E k \in DOMAIN LastCalls : LastCalls[k].outcome # "ok") =>
            /\ LastEntry.error # None
            /\ Len(LastCalls) = Len(ListCalls)
            /\ \A k \in DOMAIN LastCalls :
                   LastCalls[k].outcome = "ok" =>
                       LastEntry[LastCalls[k].call] = Items(LastCalls[k].call))

----------------------------------------------------------------------------
(* SessionSpec: one AWSSession object configured with a role                *)
(* (utils/aws_session.py) and the calls of its methods.                     *)

\* _session and _assumed_credentials are None
NoCredentials == 0

\* how many method calls the object serves
MaxCalls == 4

\* the credentials of the k-th successful AssumeRole of the run are k
Issued == Cardinality({i \in DOMAIN sts_calls : sts_calls[i] = "ok"})

\* AWSSession.__init__ (aws_session.py 18-35)
NewAWSSession(role_arn) ==
    [role_arn |-> role_arn, session |-> NoCredentials,
     assumed_credentials |-> NoCredentials]

\* the session property with the cache of _assumed_credentials left out
session_uncached(s, sts_outcome) ==
    IF sts_outcome = "ok"
    THEN [obj |-> [s EXCEPT !.assumed_credentials = Issued + 1,
                            !.session = Issued + 1],
          sts |-> <<sts_outcome>>, raised |-> FALSE]
    ELSE [obj |-> s, sts |-> <<sts_outcome>>, raised |-> TRUE]

\* AWSSession.session with _assume_role (aws_session.py 46-84) for an object
\* with a role: the object after the access, the AssumeRole calls sent and
\* whether the access raised.  sts_outcome is how AssumeRole would end.
session(s, sts_outcome) ==
    IF s.session # NoCredentials
    THEN [obj |-> s, sts |-> <<>>, raised |-> FALSE]
    ELSE IF s.assumed_credentials # NoCredentials
    THEN [obj |-> [s EXCEPT !.session = s.assumed_credentials],
          sts |-> <<>>, raised |-> FALSE]
    ELSE IF sts_outcome = "ok"
    THEN [obj |-> [s EXCEPT !.assumed_credentials = Issued + 1,
                            !.session = Issued + 1],
          sts |-> <<sts_outcome>>, raised |-> FALSE]
    ELSE [obj |-> s, sts |-> <<sts_outcome>>, raised |-> TRUE]

SessionInit ==
    /\ spc = "live" /\ aws_session = NewAWSSession("arn:aws:iam::1:role/reader")
    /\ sts_calls = <<>> /\ session_calls = <<>>
    /\ args = NoArgs /\ cloud = 0
    /\ OnlySession

\* self.session.client(...) or self.session.resource(...): the client holds
\* the credentials of the session; nothing is made when the access raises
MakeFromSession(call) ==
    /\ spc = "live" /\ Len(session_calls) < MaxCalls
    /\ \E sts_outcome \in {"ok", "AccessDenied"} :
         LET got == session(aws_session, sts_outcome)
         IN /\ aws_session' = got.obj
            /\ sts_calls' = sts_calls \o got.sts
            /\ session_calls' =
                   Append(session_calls,
                          [call |-> call, raised |-> got.raised,
                           credentials |-> IF got.raised THEN NoCredentials
                                           ELSE got.obj.session])
    /\ UNCHANGED <<spc, notSessionVars>>

\* AWSSession.get_client (aws_session.py 86-94)
GetClient == MakeFromSession("get_client")

\* AWSSession.get_resource (aws_session.py 96-103)
GetResource == MakeFromSession("get_resource")

\* AWSSession.get_account_id (aws_session.py 105-110): get_client("sts"), then
\* GetCallerIdentity, which the credentials may no longer pass
SessionGetAccountId ==
    /\ spc = "live" /\ Len(session_calls) < MaxCalls
    /\ \E sts_outcome \in {"ok", "AccessDenied"}, identity \in {"ok", "ExpiredToken"} :
         LET got == session(aws_session, sts_outcome)
         IN /\ aws_session' = got.obj
            /\ sts_calls' = sts_calls \o got.sts
            /\ session_calls' =
                   Append(session_calls,
                          [call |-> "get_account_id",
                           raised |-> got.raised \/ identity # "ok",
                           credentials |-> IF got.raised THEN NoCredentials
                                           ELSE got.obj.session])
    /\ UNCHANGED <<spc, notSessionVars>>

SessionNext == GetClient \/ GetResource \/ SessionGetAccountId

SessionSpec == SessionInit /\ [][SessionNext]_vars

\* C20: for one session object with a role, over any sequence of get_client,
\* get_resource and get_account_id calls, the role is assumed successfully
\* at most once, every client made later uses the credentials of that
\* assumption, and the credentials the object holds are never replaced.
C20_RoleAssumedOnce ==
    /\ [](spc = "live" =>
            /\ Issued <= 1
            /\ \A i \in DOMAIN session_calls :
                   session_calls[i].credentials
                       \in {NoCredentials, aws_session.assumed_credentials})
    /\ [][(spc = "live" /\ aws_session.assumed_credentials # NoCredentials)
             => aws_session'.assumed_credentials = aws_session.assumed_credentials]_vars

\* the role was assumed at the second attempt, and the two calls that
\* followed used the credentials of that assumption
C20_Witness ==
    /\ spc = "live"
    /\ sts_calls = <<"AccessDenied", "ok">>
    /\ Len(session_calls) = MaxCalls
    /\ \A i \in 2..MaxCalls : session_calls[i].credentials = 1

----------------------------------------------------------------------------
(* OpsSpec: the operations the tools of the repository send to the control  *)
(* plane of the cloud: the inventory collector main.py through the classes  *)
(* of aws_clients and AWSSession, and setup_eks_access.py.  An operation is *)
(* the pair of the first word of its name and the rest of the name.         *)

Clients ==
    {"EC2Client", "ECSClient", "EKSClient", "ELBClient", "RDSClient",
     "ElastiCacheClient", "RedshiftClient", "ElasticBeanstalkClient",
     "CloudFrontClient", "AWSSession"}

\* the operations of the collector with one more
ClientOperationsWithDelete(client) ==
    {<<"describe", "clusters">>, <<"delete", "cluster">>}

\* the operations the methods of a class send (aws_clients/*.py,
\* utils/aws_session.py 64 and 108)
ClientOperations(client) ==
    CASE client = "EC2Client" ->
           {<<"describe", "vpcs">>, <<"describe", "subnets">>,
            <<"describe", "instances">>, <<"describe", "security_groups">>,
            <<"describe", "internet_gateways">>,
            <<"describe", "nat_gateways">>, <<"describe", "route_tables">>,
            <<"describe", "network_acls">>, <<"describe", "vpc_endpoints">>}
    [] client = "ECSClient" ->
           {<<"list", "clusters">>, <<"describe", "clusters">>,
            <<"list", "services">>, <<"describe", "services">>,
            <<"list", "tasks">>, <<"describe", "tasks">>,
            <<"describe", "task_definition">>}
    [] client = "EKSClient" ->
           {<<"list", "clusters">>, <<"describe", "cluster">>,
            <<"list", "nodegroups">>, <<"describe", "nodegroup">>,
            <<"list", "fargate_profiles">>,
            <<"describe", "fargate_profile">>, <<"list", "addons">>,
            <<"describe", "addon">>}
    [] client = "ELBClient" ->
           {<<"describe", "load_balancers">>,
            <<"describe", "target_groups">>, <<"describe", "listeners">>,
            <<"describe", "rules">>, <<"describe", "target_health">>,
            <<"describe", "load_balancer_attributes">>}
    [] client = "RDSClient" ->
           {<<"describe", "db_instances">>, <<"describe", "db_clusters">>,
            <<"describe", "db_subnet_groups">>,
            <<"describe", "db_parameter_groups">>,
            <<"describe", "db_cluster_parameter_groups">>,
            <<"describe", "db_snapshots">>,
            <<"describe", "db_cluster_snapshots">>}
    [] client = "ElastiCacheClient" ->
           {<<"describe", "cache_clusters">>,
            <<"describe", "replication_groups">>,
            <<"describe", "cache_subnet_groups">>,
            <<"describe", "cache_parameter_groups">>,
            <<"describe", "serverless_caches">>}
    [] client = "RedshiftClient" ->
           {<<"describe", "clusters">>,
            <<"describe", "cluster_subnet_groups">>,
            <<"describe", "cluster_parameter_groups">>,
            <<"describe", "cluster_snapshots">>, <<"list", "workgroups">>,
            <<"list", "namespaces">>}
    [] client = "ElasticBeanstalkClient" ->
           {<<"describe", "applications">>, <<"describe", "environments">>,
            <<"describe", "environment_resources">>,
            <<"describe", "configuration_settings">>,
            <<"list", "platform_versions">>}
    [] client = "CloudFrontClient" ->
           {<<"list", "distributions">>}
    [] client = "AWSSession" ->
           {<<"assume", "role">>, <<"get", "caller_identity">>}

\* how many operations of the collector are followed
MaxOps == 2

\* the command lines of the tools
ToolArgs ==
    {[tool |-> "main.py", remove |-> FALSE, list_only |-> FALSE, assume_role |-> FALSE]}
    \cup {[tool |-> "setup_eks_access.py", remove |-> r, list_only |-> l,
           assume_role |-> a] : r, l, a \in BOOLEAN}

OpsInit ==
    /\ tpc = "start" /\ tool_args \in ToolArgs /\ issued = <<>>
    /\ args = NoArgs /\ cloud = 0
    /\ OnlyOps

Issue(operations) == issued' = issued \o operations

\* main.py: one operation of a client class
InventoryCall ==
    /\ tpc = "start" /\ tool_args.tool = "main.py" /\ Len(issued) < MaxOps
    /\ \E client \in Clients : \E operation \in ClientOperations(client) :
          Issue(<<operation>>)
    /\ UNCHANGED <<tpc, tool_args, notOpsVars>>

\* setup_eks_access.py main 146-151: the client, after get_assumed_role_session
\* (119-133) with --assume-role, which ends the run when it raises
SetupConnect ==
    /\ tpc = "start" /\ tool_args.tool = "setup_eks_access.py"
    /\ \/ /\ tool_args.assume_role
          /\ Issue(<<<<"assume", "role">>>>)
          /\ tpc' \in {"connected", "exit"}
       \/ /\ ~tool_args.assume_role
          /\ UNCHANGED issued
          /\ tpc' = "connected"
    /\ UNCHANGED <<tool_args, notOpsVars>>

\* main 166-167: delete_access_entry (63-80)
SetupDeleteAccessEntry ==
    /\ tpc = "connected" /\ ~tool_args.list_only /\ tool_args.remove
    /\ Issue(<<<<"delete", "access_entry">>>>)
    /\ tpc' = "list"
    /\ UNCHANGED <<tool_args, notOpsVars>>

\* main 169: create_access_entry (18-36), which returns False on an error
\* other than ResourceInUseException
SetupCreateAccessEntry ==
    /\ tpc = "connected" /\ ~tool_args.list_only /\ ~tool_args.remove
    /\ Issue(<<<<"create", "access_entry">>>>)
    /\ \E created \in BOOLEAN : tpc' = IF created THEN "associate" ELSE "list"
    /\ UNCHANGED <<tool_args, notOpsVars>>

\* main 170: associate_access_policy (39-60)
SetupAssociateAccessPolicy ==
    /\ tpc = "associate"
    /\ Issue(<<<<"associate", "access_policy">>>>)
    /\ tpc' = "list"
    /\ UNCHANGED <<tool_args, notOpsVars>>

\* main 163 and 172: list_access_entries (83-116) for a cluster with no entry,
\* with one, or with one that cannot be described
SetupListAccessEntries ==
    /\ \/ tpc = "list"
       \/ tpc = "connected" /\ tool_args.list_only
    /\ \E entries \in {"none", "one", "hidden"} :
          Issue(<<<<"list", "access_entries">>>>
                \o (IF entries = "none" THEN <<>>
                    ELSE <<<<"describe", "access_entry">>>>)
                \o (IF entries = "one"
                    THEN <<<<"list", "associated_access_policies">>>> ELSE <<>>))
    /\ tpc' = "exit"
    /\ UNCHANGED <<tool_args, notOpsVars>>

OpsNext ==
    \/ InventoryCall
    \/ SetupConnect
    \/ SetupDeleteAccessEntry
    \/ SetupCreateAccessEntry
    \/ SetupAssociateAccessPolicy
    \/ SetupListAccessEntries

OpsSpec == OpsInit /\ [][OpsNext]_vars

\* a describe, list or get call
ReadOnly(operation) == operation[1] \in {"describe", "list", "get"}

\* identity lookup and role assumption
IdentityCall(operation) ==
    operation \in {<<"assume", "role">>, <<"get", "caller_identity">>}

\* C17 as stated: every operation sent to the control plane is a read-only
\* describe, list or get call, besides identity lookup and role assumption.
C17_OnlyReadOperations ==
    tpc # "idle" =>
        \A i \in DOMAIN issued : ReadOnly(issued[i]) \/ IdentityCall(issued[i])

\* C17 amended: every operation the inventory collector sends is a read-only
\* describe, list or get call, besides identity lookup and role assumption;
\* the access set-up tool creates an access entry and associates an access
\* policy with it, or with --remove deletes the access entry, and with
\* --list-only sends read-only calls only.
C17_OnlyAccessSetupWrites ==
    tpc # "idle" =>
        \A i \in DOMAIN issued :
            \/ ReadOnly(issued[i])
            \/ IdentityCall(issued[i])
            \/ /\ tool_args.tool = "setup_eks_access.py"
               /\ ~tool_args.list_only
               /\ issued[i] \in IF tool_args.remove
                                THEN {<<"delete", "access_entry">>}
                                ELSE {<<"create", "access_entry">>,
                                      <<"associate", "access_policy">>}

\* the set-up tool assumed a role, created an access entry, associated the
\* policy and listed the entries
C17_Witness ==
    /\ tpc = "exit" /\ tool_args.tool = "setup_eks_access.py"
    /\ Len(issued) >= 4
    /\ issued[1] = <<"assume", "role">>
    /\ issued[2] = <<"create", "access_entry">>
    /\ issued[3] = <<"associate", "access_policy">>
    /\ issued[4] = <<"list", "access_entries">>

----------------------------------------------------------------------------
(* Properties of the batched describe calls as a whole                      *)

\* the responses to the calls, in the order of the calls
Responses == [k \in DOMAIN calls |-> Describe(calls[k])]

\* C27: the batches sent by describe_clusters, describe_services and
\* describe_tasks, concatenated in the order of the calls, are the part of
\* the identifier list the loop has passed, and the whole list when the
\* operation has returned: every identifier is sent in exactly one call; the
\* results accumulated are the responses concatenated in the same order.
C27_BatchesConcatenateToInput ==
    bpc # "idle" =>
        /\ Flatten(calls) = Take(ids, bi)
        /\ all_results = Flatten(Responses)
        /\ bpc = "returned" =>
              /\ Flatten(calls) = ids
              /\ \A x \in Members(ids) :
                    Cardinality({k \in DOMAIN calls : x \in Members(calls[k])}) = 1

\* 25 service identifiers were sent in three calls of 10, 10 and 5
C27_Witness ==
    /\ bpc = "returned" /\ op = "describe_services" /\ Len(ids) = 25
    /\ Len(calls) = 3 /\ calls[3] = <<21, 22, 23, 24, 25>>
    /\ Len(all_results) = 25

----------------------------------------------------------------------------
(* LabelSpec: format_label (diagram_generator_detailed.py 64-69,            *)
(* diagram_generator_drawio.py 36-39; the two copies are the same code)     *)
(* called with a name and a budget, and called again with its own result.   *)

MaxName == 6         \* length of a name passed to format_label, at most
MaxBudget == 8       \* max_len passed to format_label, at most

\* s[:n] of Python: a negative n counts from the end
slice_to(s, n) == IF n >= 0 THEN Take(s, n) ELSE Take(s, Max(Len(s) + n, 0))

\* a label cut at the budget, before the ellipsis is added
format_label_cut_late(name, max_len) ==
    IF Len(name) <= max_len THEN name ELSE slice_to(name, max_len) \o <<".", ".">>

\* format_label: if len(name) <= max_len: return name;
\* return name[:max_len-2] + ".."
format_label(name, max_len) ==
    IF Len(name) <= max_len THEN name ELSE slice_to(name, max_len - 2) \o <<".", ".">>

\* the names: every string of letters and dots up to the bound
LabelNames == UNION {[1..n -> {"a", "."}] : n \in 0..MaxName}

LabelInit ==
    /\ fpc = "format_label"
    /\ \E name \in LabelNames, max_len \in 0..MaxBudget :
         fin = [name |-> name, max_len |-> max_len]
    /\ fout = [detailed |-> <<>>, drawio |-> <<>>]
    /\ args = NoArgs /\ cloud = 0
    /\ OnlyCalls

\* a generator formats the name
FormatLabel(g) ==
    /\ fpc = "format_label" /\ fout[g] = <<>>
    /\ fout' = [fout EXCEPT ![g] = <<format_label(fin.name, fin.max_len)>>]
    /\ UNCHANGED <<fpc, fin, notCallVars>>

\* the label is formatted again with the same budget
FormatAgain(g) ==
    /\ fpc = "format_label" /\ Len(fout[g]) = 1
    /\ fout' = [fout EXCEPT ![g] = Append(@, format_label(@[1], fin.max_len))]
    /\ UNCHANGED <<fpc, fin, notCallVars>>

\* diagram_generator_detailed.py 64-69
FormatLabelDetailed == FormatLabel("detailed")
FormatAgainDetailed == FormatAgain("detailed")

\* diagram_generator_drawio.py 36-39
FormatLabelDrawio == FormatLabel("drawio")
FormatAgainDrawio == FormatAgain("drawio")

LabelNext ==
    \/ FormatLabelDetailed
    \/ FormatAgainDetailed
    \/ FormatLabelDrawio
    \/ FormatAgainDrawio

LabelSpec == LabelInit /\ [][LabelNext]_vars

----------------------------------------------------------------------------
(* ContextSpec: K8sCollector._get_context_for_cluster                       *)
(* (collectors/k8s_collector.py 27-38) called with the name of a cluster    *)
(* and the contexts of the local configuration.                             *)

MaxContexts == 3     \* contexts of the local configuration, at most

\* the context found last in the list
get_context_last_match(cluster_name, listing) ==
    IF listing.raises THEN None
    ELSE Fold(LAMBDA found, ctx : IF in(cluster_name, ctx.name) THEN ctx.name ELSE found,
              None, listing.contexts)

\* _get_context_for_cluster: the loop returns at the first context whose name
\* holds the name of the cluster, and None after the loop; an exception of
\* config.list_kube_config_contexts is caught and None is returned
get_context_for_cluster(cluster_name, listing) ==
    IF listing.raises THEN None
    ELSE Fold(LAMBDA found, ctx :
                 IF found # None THEN found
                 ELSE IF in(cluster_name, ctx.name) THEN ctx.name ELSE None,
              None, listing.contexts)

\* names of the contexts of a configuration; ctx.get('name', '') of a
\* context without a name is the empty string
ContextNames ==
    {<<"p", "r", "o", "d">>, <<"p", "r", "o", "d", "-", "e", "u">>,
     <<"x", "-", "p", "r", "o", "d">>, <<"d", "e", "v">>, <<>>}

\* names of the cluster looked for; cluster_info.get("cluster_name", "") of a
\* record without a name is the empty string
ContextClusterNames ==
    {<<"p", "r", "o", "d">>, <<"d", "e", "v">>, <<"q", "a">>, <<>>}

\* the configurations: the contexts in the order of the file
ContextLists ==
    UNION {[1..n -> [name : ContextNames]] : n \in 0..MaxContexts}

ContextInit ==
    /\ fpc = "get_context"
    /\ \E cluster_name \in ContextClusterNames, contexts \in ContextLists,
          raises \in BOOLEAN :
         fin = [cluster_name |-> cluster_name,
                listing |-> [contexts |-> contexts, raises |-> raises]]
    /\ fout = EmptyDict
    /\ args = NoArgs /\ cloud = 0
    /\ OnlyCalls

\* _create_k8s_client asks for the context of the cluster
\* (k8s_collector.py 44)
GetContextForCluster ==
    /\ fpc = "get_context" /\ fout = EmptyDict
    /\ fout' = [context_name |-> get_context_for_cluster(fin.cluster_name, fin.listing)]
    /\ UNCHANGED <<fpc, fin, notCallVars>>

ContextNext == GetContextForCluster

ContextSpec == ContextInit /\ [][ContextNext]_vars

\* the positions of the contexts whose name holds the name of the cluster
Matching ==
    {k \in DOMAIN fin.listing.contexts :
        in(fin.cluster_name, fin.listing.contexts[k].name)}

\* C25: _get_context_for_cluster returns the name of the first context, in
\* the order of the configuration, whose name holds the name of the cluster
\* as a substring, also when several contexts match; it returns no context
\* when no name holds it or when listing the contexts fails.
C25_FirstMatchingContext ==
    (fpc = "get_context" /\ fout # EmptyDict) =>
        IF fin.listing.raises \/ Matching = {}
        THEN fout.context_name = None
        ELSE \E k \in Matching :
                /\ \A j \in Matching : k <= j
                /\ fout.context_name = fin.listing.contexts[k].name

\* three contexts of which the second and the third hold the name "prod",
\* and the second was returned
C25_Witness ==
    /\ fpc = "get_context" /\ fout # EmptyDict
    /\ ~fin.listing.raises
    /\ Matching = {2, 3}
    /\ fin.listing.contexts[2].name # fin.listing.contexts[3].name
    /\ fout.context_name = fin.listing.contexts[2].name

----------------------------------------------------------------------------
(* GeneratorSpec: one DrawIOGenerator (diagram_generator_drawio.py 51-174)  *)
(* and the calls of add_group, add_node and add_edge in any order, then     *)
(* generate_xml.  The ids of the cells are the decimal strings of the       *)
(* values of the counter.                                                   *)

MaxCells == 8        \* calls of add_group, add_node and add_edge, at most

\* str(n) for an int n >= 0: its decimal digits
RECURSIVE str(_)
str(n) ==
    LET digit == <<"0", "1", "2", "3", "4", "5", "6", "7", "8", "9">>[(n % 10) + 1]
    IN IF n < 10 THEN <<digit>> ELSE Append(str(n \div 10), digit)

\* the ids of the mxCell elements of the document in the order generate_xml
\* writes them: the two root cells, the cells, the edges
\* (diagram_generator_drawio.py 152-172)
generate_xml(gen) ==
    <<<<"0">>, <<"1">>>> \o [k \in DOMAIN gen.cells |-> str(gen.cells[k].id)]
                        \o [k \in DOMAIN gen.edges |-> str(gen.edges[k].id)]

\* the ids of the groups and of the nodes of a generator, and the greatest
\* of a set of ids
GroupIdsOf(gen) == {c.id : c \in {x \in Members(gen.cells) : x.style = "group"}}
NodeIdsOf(gen) == {c.id : c \in {x \in Members(gen.cells) : x.style # "group"}}
Last(S) == {x \in S : \A y \in S : y <= x}

GeneratorInit ==
    /\ fpc = "generator"
    /\ fin = EmptyDict
    /\ fout = [gen |-> DrawIOGenerator, returned |-> <<>>, xml |-> <<>>]
    /\ args = NoArgs /\ cloud = 0
    /\ OnlyCalls

\* what a call of the generator leaves: the generator and the id returned
Called(gen) ==
    /\ fout' = [fout EXCEPT !.gen = gen, !.returned = Append(@, str(gen.cell_id))]
    /\ UNCHANGED <<fpc, fin, notCallVars>>

\* add_group on the page or inside the group added last
AddGroup ==
    /\ fpc = "generator" /\ Len(fout.returned) < MaxCells
    /\ \E parent \in {1} \cup Last(GroupIdsOf(fout.gen)) :
         Called(add_group(fout.gen, <<"group">>, 20, 20, 300, 100, parent))

\* add_node inside the group added last, or on the page when there is none
AddNode ==
    /\ fpc = "generator" /\ Len(fout.returned) < MaxCells
    /\ \E parent \in Last({1} \cup GroupIdsOf(fout.gen)) :
         Called(add_node(fout.gen, <<"node">>, "ec2", 20, 25, parent, 48, 48))

\* add_edge from a node to the node added last
AddEdge ==
    /\ fpc = "generator" /\ Len(fout.returned) < MaxCells
    /\ \E source \in NodeIdsOf(fout.gen), target \in Last(NodeIdsOf(fout.gen)) :
         source < target /\ Called(add_edge(fout.gen, source, target))

\* generate_xml
GenerateXml ==
    /\ fpc = "generator"
    /\ fout' = [fout EXCEPT !.xml = generate_xml(fout.gen)]
    /\ fpc' = "written"
    /\ UNCHANGED <<fin, notCallVars>>

GeneratorNext == AddGroup \/ AddNode \/ AddEdge \/ GenerateXml

GeneratorSpec == GeneratorInit /\ [][GeneratorNext]_vars

\* C28: after any sequence of add_group, add_node and add_edge calls on one
\* generator the ids of all cells and edges are pairwise distinct and none
\* is the id 0 or 1 of a root cell, also in the document written; the ids
\* are handed out in strictly increasing order, the first being 3.
C28_IdsDistinctAndIncreasing ==
    fpc \in {"generator", "written"} =>
        LET gen == fout.gen
            used == [k \in DOMAIN gen.cells |-> gen.cells[k].id]
                        \o [k \in DOMAIN gen.edges |-> gen.edges[k].id]
        IN /\ \A i, j \in DOMAIN used : i # j => str(used[i]) # str(used[j])
           /\ \A i \in DOMAIN used : str(used[i]) \notin {<<"0">>, <<"1">>}
           /\ Members(fout.returned) = {str(used[i]) : i \in DOMAIN used}
           /\ \A k \in DOMAIN fout.returned : fout.returned[k] = str(k + 2)
           /\ fpc = "written" =>
                 \A i, j \in DOMAIN fout.xml : i # j => fout.xml[i] # fout.xml[j]

\* a group, two nodes and five edges between them were added, the last with
\* the id 10, and the document was written
C28_Witness ==
    /\ fpc = "written"
    /\ Len(fout.gen.cells) = 3 /\ Len(fout.gen.edges) = 5
    /\ fout.gen.edges[1].id = 6
    /\ fout.returned[MaxCells] = <<"1", "0">>
    /\ Len(fout.xml) = 10

----------------------------------------------------------------------------
(* PodsSpec: the loop of collect_cluster_workloads over the pods that       *)
(* list_pod_for_all_namespaces returned (collectors/k8s_collector.py        *)
(* 115-147).                                                                *)

MaxPods == 4         \* pods a cluster returns, at most

\* the nodes a pod can be on: not scheduled, one of two nodes, or a node
\* that is called "unscheduled"
PodNodes == {None, <<"n", "1">>, <<"n", "2">>, STR_unscheduled}

\* the answers of the list call: pod k has the name <<"p", k>>
PodLists ==
    UNION {{[k \in 1..n |-> Pod(<<"p", k>>, "default", nodes[k], "Running")] :
               nodes \in [1..n -> PodNodes]} : n \in 0..MaxPods}

PodsInit ==
    /\ fpc = "list_pods"
    /\ \E items \in PodLists : fin = [items |-> items]
    /\ fout = EmptyDict
    /\ args = NoArgs /\ cloud = 0
    /\ OnlyCalls

\* the call returned and the loop ran to its end
ListPods ==
    /\ fpc = "list_pods" /\ fout = EmptyDict
    /\ fout' = collect_pods(fin.items)
    /\ UNCHANGED <<fpc, fin, notCallVars>>

PodsNext == ListPods

PodsSpec == PodsInit /\ [][PodsNext]_vars

\* the key under which a pod is to be found
NodeKey(pod) == IF pod.node_name = None THEN STR_unscheduled ELSE pod.node_name

\* the places of the groups, each a key and a position in its list, and the
\* places of a pod
AllPlaces ==
    UNION {{<<key, j>> : j \in DOMAIN fout.pods_by_node[key]} :
           key \in DOMAIN fout.pods_by_node}
Places(pod) == {pl \in AllPlaces : fout.pods_by_node[pl[1]][pl[2]] = pod}

\* C29: when the pod list call succeeded, pods_by_node is a partition of
\* the pods collected: every pod of the list pods is in exactly one group,
\* the group of its node or the group "unscheduled" when it has no node;
\* the sizes of the groups add up to the number of pods and no group is
\* empty.
C29_PodsPartitionedByNode ==
    (fpc = "list_pods" /\ fout # EmptyDict) =>
        /\ fout.pods = fin.items
        /\ \A i \in DOMAIN fout.pods :
               /\ Cardinality(Places(fout.pods[i])) = 1
               /\ \A pl \in Places(fout.pods[i]) : pl[1] = NodeKey(fout.pods[i])
        /\ Cardinality(AllPlaces) = Len(fout.pods)
        /\ \A key \in DOMAIN fout.pods_by_node : fout.pods_by_node[key] # <<>>

\* four pods: two on one node, one on another and one not scheduled
C29_Witness ==
    /\ fpc = "list_pods" /\ fout # EmptyDict
    /\ Len(fout.pods) = 4
    /\ DOMAIN fout.pods_by_node = {<<"n", "1">>, <<"n", "2">>, STR_unscheduled}
    /\ Len(fout.pods_by_node[<<"n", "1">>]) = 2
    /\ fout.pods[4].node_name = None


----------------------------------------------------------------------------
(* NodePodsSpec: the detailed and the draw.io generator on a VPC with one   *)
(* EKS cluster whose node group has two instances, one ECS service and one  *)
(* Beanstalk environment.  The private IP and the name of the first         *)
(* instance, the launch type of the service and the tier of the environment *)
(* are strings or null, as collectors/vpc_collector.py 128-145,             *)
(* models/ecs.py 38 and models/elasticbeanstalk.py 79 write them; the       *)
(* workload document lists pods under node names of several forms.          *)

STR_ip_1 == <<"1", "0", ".", "0", ".", "0", ".", "1">>
STR_ip_2 == <<"1", "0", ".", "0", ".", "0", ".", "2">>

\* the names under which an API server may list the nodes: the default
\* private DNS names of the two addresses in eu-west-1, the name of the
\* first with the dots of the address, its bare address, and its default
\* name in us-east-1
STR_node_2 ==
    <<"i", "p", "-", "1", "0", "-", "0", "-", "0", "-", "2", ".",
      "e", "u", "-", "w", "e", "s", "t", "-", "1", ".", "c", "o",
      "m", "p", "u", "t", "e", ".", "i", "n", "t", "e", "r", "n",
      "a", "l">>
STR_node_1_dotted ==
    <<"i", "p", "-", "1", "0", ".", "0", ".", "0", ".", "1", ".",
      "e", "u", "-", "w", "e", "s", "t", "-", "1", ".", "c", "o",
      "m", "p", "u", "t", "e", ".", "i", "n", "t", "e", "r", "n",
      "a", "l">>
STR_node_1_us ==
    <<"i", "p", "-", "1", "0", "-", "0", "-", "0", "-", "1", ".",
      "u", "s", "-", "e", "a", "s", "t", "-", "1", ".", "c", "o",
      "m", "p", "u", "t", "e", ".", "i", "n", "t", "e", "r", "n",
      "a", "l">>

NodeNames == {STR_node_1, STR_node_2, STR_node_1_dotted, STR_ip_1, STR_node_1_us}

\* a node name that does not follow the default
STR_worker_2 == <<"w", "o", "r", "k", "e", "r", "-", "2">>

\* a pod as the workload document holds it
NodePod(name, namespace, status) == [name |-> name, namespace |-> namespace, status |-> status]

\* six pods of one node, four of them running outside the system namespaces
PodsA ==
    <<NodePod(<<"a", "p", "i">>, "default", "Running"),
      NodePod(<<"d", "n", "s">>, "kube-system", "Running"),
      NodePod(<<"j", "o", "b">>, "default", "Pending"),
      NodePod(<<"w", "e", "b">>, "default", "Running"),
      NodePod(<<"d", "b">>, "shop", "Running"),
      NodePod(<<"m", "q">>, "shop", "Running")>>

PodsB == <<NodePod(<<"c", "r", "o", "n">>, "default", "Running")>>

\* the workload documents: none, the entry of another cluster, and the
\* entry of the cluster with PodsB under the default or another name of the
\* second node and PodsA under one of the names
NodeWorkloads ==
    {EmptyDict,
     Put(EmptyDict, <<"o", "t", "h", "e", "r">>,
         [pods_by_node |-> Put(EmptyDict, STR_node_1, PodsA)])}
    \cup {Put(EmptyDict, <<"a", "p", "p", "s">>,
              [pods_by_node |-> Put(Put(EmptyDict, second, PodsB), key, PodsA)]) :
          key \in NodeNames, second \in {STR_node_2, STR_worker_2}}

STR_FARGATE == <<"F", "A", "R", "G", "A", "T", "E">>
STR_WebServer == <<"W", "e", "b", "S", "e", "r", "v", "e", "r">>

NodePodsInit ==
    /\ \E private_ip \in {STR_ip_1, STR_ip_2, None},
          name \in {<<"n", "o", "d", "e">>, None},
          launch_type \in {STR_FARGATE, None},
          tier_name \in {STR_WebServer, None},
          k8s_workloads \in NodeWorkloads :
         lin = [inventory |->
                   [regions |->
                       <<LayoutRegion(1,
                            <<LayoutInstance("i-1", name, EksNodeTags, private_ip),
                              LayoutInstance("i-2", <<"n", "o", "d", "e", "2">>,
                                             EksNodeTags, STR_ip_2)>>,
                            [application_load_balancers |-> <<>>,
                             network_load_balancers |-> <<>>,
                             classic_load_balancers |-> <<>>],
                            <<EksCluster>>,
                            <<EcsCluster(<<"j", "o", "b", "s">>,
                                 <<Service("api", <<"s1">>, 1)
                                   @@ [launch_type |-> launch_type]>>)>>,
                            CHOOSE data \in LayoutData : data.elasticache.clusters = <<>>,
                            <<[environment_name |-> <<"p", "r", "o", "d", "-", "a">>,
                               application_name |-> <<"s", "h", "o", "p">>,
                               tier_name |-> tier_name]>>)>>,
                    cloudfront |-> [distributions |-> <<>>]],
                k8s_workloads |-> k8s_workloads]
    /\ lpc = "loaded"
    /\ layouts = [detailed |-> <<>>, drawio |-> <<>>]
    /\ args = NoArgs /\ cloud = 0
    /\ OnlyLayouts

NodePodsNext == LayoutDetailed \/ LayoutDrawio

NodePodsSpec == NodePodsInit /\ [][NodePodsNext]_vars

----------------------------------------------------------------------------
(* Properties of the pods of a node and of null fields                      *)

\* the instances that the node group of the cluster shows
ShownInstances ==
    Take(get_eks_node_instances(LayoutRd.ec2_instances, EksCluster.cluster_name,
                                EksCluster.node_groups[1].nodegroup_name), 5)

\* the default private DNS name of the two addresses in eu-west-1, written
\* out
HostName(private_ip) == IF private_ip = STR_ip_1 THEN STR_node_1 ELSE STR_node_2

\* the pods the workload document stores for the cluster under a node name
StoredPods(node_name) ==
    IF EksCluster.cluster_name \notin DOMAIN lin.k8s_workloads THEN <<>>
    ELSE IF node_name \notin DOMAIN lin.k8s_workloads[EksCluster.cluster_name].pods_by_node
    THEN <<>>
    ELSE lin.k8s_workloads[EksCluster.cluster_name].pods_by_node[node_name]

\* what a draw.io layout shows for an instance: the number of pods in the
\* label of its group and the labels of the pod cells inside the group
DrawioPods(layout, inst) ==
    LET group == layout.cells[CHOOSE k \in DOMAIN layout.cells :
                     /\ layout.cells[k].style = "group"
                     /\ layout.cells[k].width = 90 /\ layout.cells[k].height = 140
                     /\ layout.cells[k].value[1] = inst.name
                     /\ layout.cells[k].value[2] = inst.private_ip]
        inside == SelectSeq(layout.cells,
                            LAMBDA c : c.parent = group.id /\ c.style = "pod")
    IN [count |-> group.value[3], pods |-> [k \in DOMAIN inside |-> inside[k].value[1]]]

\* what a graph of the detailed generator shows for an instance
DetailedPods(layout, inst) ==
    LET k == CHOOSE k \in DOMAIN layout.clusters :
                 /\ Len(layout.clusters[k].value) = 3
                 /\ layout.clusters[k].value[1] = inst.name
                 /\ layout.clusters[k].value[2] = inst.private_ip
        inside == SelectSeq(layout.nodes, LAMBDA n : n.parent = k /\ n.kind = "pod")
    IN [count |-> layout.clusters[k].value[3],
        pods |-> [i \in DOMAIN inside |-> inside[i].value[2].name]]

ShownPods(g, layout, inst) ==
    IF g = "drawio" THEN DrawioPods(layout, inst) ELSE DetailedPods(layout, inst)

\* the running pods outside the system namespaces among the stored ones, of
\* which the draw.io generator draws three and the detailed generator five
ExpectedPods(g, inst) ==
    LET stored == StoredPods(HostName(inst.private_ip))
        shown == SelectSeq(stored,
                     LAMBDA pd : /\ pd.status = "Running"
                                 /\ pd.namespace \notin {"kube-system", "amazon-cloudwatch",
                                                         "amazon-guardduty"})
        limit == IF g = "drawio" THEN 3 ELSE 5
    IN [count |-> Len(shown),
        pods |-> [k \in 1..Min(limit, Len(shown)) |-> shown[k].name]]

\* no record of the inventory document holds null in a field the rows read
NoNullField ==
    /\ \A inst \in Members(LayoutRd.ec2_instances) :
           inst.name # None /\ inst.private_ip # None
    /\ \A c \in Members(LayoutRd.ecs_clusters) : \A sv \in Members(c.services) :
           attr(sv, "launch_type", <<"E", "C", "2">>) # None
    /\ \A env \in Members(LayoutRd.elasticbeanstalk.environments) :
           attr(env, "tier_name", <<"W", "e", "b">>) # None

C26_GeneratorsNeverRaise ==
    lpc = "loaded" =>
        \A g \in DOMAIN layouts : \A r \in DOMAIN layouts[g] :
            layouts[g][r].raised = ""


----------------------------------------------------------------------------
(* The graph of generate_vpc_diagram (diagram_generator.py 38-231), built  *)
(* with the same library as the graph of the detailed generator.           *)

\* the gateways, directly inside the cluster of the VPC
\* (diagram_generator.py 101-114)
OverviewGateways(rd, vpc_data, vpc_name) ==
    CollectRow(
        CollectRow(Cluster(Cluster(NewGraph, <<rd.region>>),
                           <<vpc_name, vpc_data.cidr_block>>),
                   vpc_data.internet_gateways, "igw", "igw_nodes"),
        SelectSeq(vpc_data.nat_gateways, LAMBDA nat : nat.state = "available"),
        "nat", "nat_nodes")

\* the load balancers (diagram_generator.py 116-135); a classic load
\* balancer is drawn and kept in no list
OverviewPublic(d, sel, vpc_data) ==
    IF \/ SelectSeq(vpc_data.subnets, LAMBDA sn : sn.public) # <<>>
       \/ sel.vpc_albs # <<>> \/ sel.vpc_nlbs # <<>>
    THEN EndCluster(
             GraphRow(CollectRow(CollectRow(Cluster(d, <<"Public Subnets">>),
                                            sel.vpc_albs, "alb", "alb_nodes"),
                                 sel.vpc_nlbs, "nlb", "nlb_nodes"),
                      sel.vpc_clbs, "clb"))
    ELSE d

\* the running instances: one node each up to five, one node for all beyond
\* (diagram_generator.py 144-153)
OverviewEc2(d, running_ec2) ==
    IF running_ec2 = <<>> THEN d
    ELSE IF Len(running_ec2) <= 5 THEN CollectRow(d, running_ec2, "ec2", "ec2_nodes")
    ELSE Collect(d, "ec2", <<"more", Len(running_ec2)>>, "ec2_nodes")

\* the compute resources (diagram_generator.py 137-165)
OverviewCompute(d, sel, vpc_data) ==
    IF \/ SelectSeq(vpc_data.subnets, LAMBDA sn : ~sn.public) # <<>>
       \/ sel.vpc_ec2 # <<>> \/ sel.vpc_ecs # <<>> \/ sel.vpc_eks # <<>>
    THEN EndCluster(
             CollectRow(CollectRow(OverviewEc2(Cluster(d, <<"Private Subnets - Compute">>),
                                               running(sel.vpc_ec2)),
                                   sel.vpc_ecs, "ecs", "ecs_nodes"),
                        sel.vpc_eks, "eks", "eks_nodes"))
    ELSE d

\* the data stores (diagram_generator.py 167-194)
OverviewData(d, sel) ==
    IF /\ sel.vpc_rds_instances = <<>> /\ sel.vpc_rds_clusters = <<>>
       /\ sel.vpc_elasticache = <<>> /\ sel.vpc_repl_groups = <<>>
    THEN d
    ELSE EndCluster(
             CollectRow(
                 CollectRow(
                     CollectRow(
                         CollectRow(Cluster(d, <<"Private Subnets - Data">>),
                                    sel.vpc_rds_instances, "rds", "rds_nodes"),
                         sel.vpc_rds_clusters, "aurora", "rds_nodes"),
                     sel.vpc_elasticache, "elasticache", "cache_nodes"),
                 sel.vpc_repl_groups, "elasticache", "cache_nodes"))

\* the connections (diagram_generator.py 196-231): no slice is taken of the
\* load balancers, the clusters or the gateways
OverviewConnections(d) ==
    LinkEach(
        LinkEach(
            LinkEach(
                LinkEach(
                    LinkEach(d, d.lists.igw_nodes,
                             <<d.lists.alb_nodes, d.lists.nlb_nodes>>),
                    d.lists.alb_nodes,
                    <<d.lists.ecs_nodes, d.lists.eks_nodes, Take(d.lists.ec2_nodes, 3)>>),
                d.lists.nlb_nodes, <<d.lists.ecs_nodes, d.lists.eks_nodes>>),
            d.lists.ecs_nodes,
            <<Take(d.lists.rds_nodes, 2), Take(d.lists.cache_nodes, 2)>>),
        d.lists.eks_nodes,
        <<Take(d.lists.rds_nodes, 2), Take(d.lists.cache_nodes, 2)>>)

\* the graph handed to the renderer
OverviewGraph(rd, vpc_data, sel) ==
    OverviewConnections(
        OverviewData(
            OverviewCompute(
                OverviewPublic(
                    OverviewGateways(rd, vpc_data,
                        get_resource_name("overview", vpc_data, "vpc_id")),
                    sel, vpc_data),
                sel, vpc_data),
            sel)).G

\* generate_vpc_diagram (diagram_generator.py 38-231)
generate_vpc_diagram(rd, vpc_data) ==
    [raised |-> ""] @@ OverviewGraph(rd, vpc_data, Selection("overview", rd, vpc_data))


----------------------------------------------------------------------------
(* RowsSpec: the three generators, each run once, on a VPC whose numbers of *)
(* gateways, load balancers, clusters, node groups, services, environments  *)
(* and data stores vary.                                                    *)

\* the largest numbers of the inputs
MaxIgws == 4
MaxAlbs == 4
MaxStores == 3

RowsAlb(k) ==
    [load_balancer_name |-> <<"alb", k>>, vpc_id |-> <<"v", "1">>,
     dns_name |-> <<"a", "l", "b">> \o str(k) \o <<".", "a", "w", "s">>]

RowsNlb(k) ==
    [load_balancer_name |-> <<"nlb", k>>, vpc_id |-> <<"v", "1">>,
     dns_name |-> <<"n", "l", "b">> \o str(k) \o <<".", "a", "w", "s">>]

\* no load balancer, one of each kind, or MaxAlbs application load balancers
RowsLoadBalancers ==
    {[application_load_balancers |-> [k \in 1..n[1] |-> RowsAlb(k)],
      network_load_balancers |-> [k \in 1..n[2] |-> RowsNlb(k)],
      classic_load_balancers |-> <<>>] :
     n \in {<<0, 0>>, <<1, 1>>, <<MaxAlbs, 0>>}}

\* n data stores of every kind, all of the VPC; of the Redshift kind n - 1
RowsData(n) ==
    [rds |-> [instances |-> [k \in 1..n |-> [db_instance_identifier |-> k,
                                             vpc_id |-> <<"v", "1">>]],
              clusters |-> [k \in 1..n |-> [db_cluster_identifier |-> k,
                                            vpc_id |-> <<"v", "1">>]]],
     elasticache |->
         [clusters |-> [k \in 1..n |-> [cache_cluster_id |-> k,
                                        cache_subnet_group_name |-> <<"g", "r", "p">>]],
          replication_groups |-> [k \in 1..n |-> [replication_group_id |-> k]]],
     redshift |-> [clusters |-> [k \in 1..(IF n = 0 THEN 0 ELSE n - 1) |->
                                    [cluster_identifier |-> k, vpc_id |-> <<"v", "1">>]],
                   serverless_workgroups |-> <<>>]]

\* the EKS clusters of the VPC: none, the cluster with its node group, the
\* cluster with a second node group, and two clusters
RowsEks ==
    {<<>>, <<EksCluster>>,
     <<[EksCluster EXCEPT !.node_groups =
            Append(@, [nodegroup_name |-> <<"n", "g", "2">>])]>>,
     <<EksCluster, [EksCluster EXCEPT !.cluster_name = <<"b", "a", "t", "c", "h">>]>>}

\* the ECS clusters: none, or one with four running services and a stopped one
RowsEcs ==
    {<<>>,
     <<EcsCluster(<<"j", "o", "b", "s">>,
                  [k \in 1..5 |-> Service(k, <<"s1">>, IF k = 5 THEN 0 ELSE 1)])>>}

\* n Beanstalk environments whose names hold the name of the VPC
RowsEnvs(n) ==
    [k \in 1..n |-> [environment_name |-> <<"p", "r", "o", "d", "-", "a", "-">> \o str(k),
                     application_name |-> <<"s", "h", "o", "p">>]]

\* the workload document: the six pods of PodsA on the node 10.0.0.1
RowsPods ==
    Put(EmptyDict, EksCluster.cluster_name,
        [pods_by_node |-> Put(EmptyDict, STR_node_1, PodsA)])

RowsInit ==
    /\ \E igws \in {1, MaxIgws}, lbs \in RowsLoadBalancers, eks \in RowsEks,
          ecs \in RowsEcs, instances \in {<<>>, LayoutFleet},
          stores \in {0, 1, MaxStores}, envs \in {0, 3},
          cf_data \in LayoutCloudFront :
         lin = [inventory |->
                   [regions |-> <<LayoutRegion(igws, instances, lbs, eks, ecs,
                                               RowsData(stores), RowsEnvs(envs))>>,
                    cloudfront |-> cf_data],
                k8s_workloads |-> RowsPods]
    /\ lpc = "loaded"
    /\ layouts = [overview |-> <<>>, detailed |-> <<>>, drawio |-> <<>>]
    /\ args = NoArgs /\ cloud = 0
    /\ OnlyLayouts

\* diagram_generator.py main: the diagram of the VPC
RowsOverview ==
    /\ lpc = "loaded" /\ layouts.overview = <<>>
    /\ layouts' = [layouts EXCEPT !.overview =
                      <<generate_vpc_diagram(LayoutRd, LayoutVpcData)>>]
    /\ UNCHANGED <<lpc, lin, notLayoutVars>>

\* diagram_generator_detailed.py main (607-703)
RowsDetailed ==
    /\ lpc = "loaded" /\ layouts.detailed = <<>>
    /\ layouts' = [layouts EXCEPT !.detailed =
                      <<generate_detailed_vpc_diagram(LayoutRd, LayoutVpcData,
                                                      lin.k8s_workloads)>>]
    /\ UNCHANGED <<lpc, lin, notLayoutVars>>

\* diagram_generator_drawio.py main (714-784), in a process whose hash seed
\* gives the set of DNS names some order
RowsDrawio ==
    /\ lpc = "loaded" /\ layouts.drawio = <<>>
    /\ LET sel == Selection("drawio", LayoutRd, LayoutVpcData)
       IN \E lb_order \in Orders(vpc_lb_dns(sel.vpc_albs, sel.vpc_nlbs)) :
             layouts' = [layouts EXCEPT !.drawio =
                            <<generate_drawio_diagram(LayoutRd, LayoutVpcData,
                                  lin.k8s_workloads, lin.inventory.cloudfront,
                                  lb_order)>>]
    /\ UNCHANGED <<lpc, lin, notLayoutVars>>

RowsNext == RowsOverview \/ RowsDetailed \/ RowsDrawio

RowsSpec == RowsInit /\ [][RowsNext]_vars


----------------------------------------------------------------------------
(* Properties of the connections                                            *)

\* the kind of the node n of a layout: the style of the cell n of a draw.io
\* layout, the kind of the n-th node of a graph
KindOf(g, layout, n) ==
    IF g = "drawio"
    THEN layout.cells[CHOOSE k \in DOMAIN layout.cells : layout.cells[k].id = n].style
    ELSE layout.nodes[n].kind

\* the nodes of a layout
NodesOf(g, layout) ==
    IF g = "drawio" THEN NodeIds(layout) ELSE DOMAIN layout.nodes

LoadBalancerKinds == {"alb", "nlb"}
ComputeKinds == {"ecs", "ecs_service", "eks", "beanstalk", "ec2"}
DatabaseKinds == {"rds", "aurora"}
CacheKinds == {"elasticache"}

\* the nodes of some kinds with an edge to the node n, and the nodes of some
\* kinds that the node n has an edge to
SourcesOf(g, layout, n, kinds) ==
    {layout.edges[k].source :
        k \in {i \in DOMAIN layout.edges :
                  /\ layout.edges[i].target = n
                  /\ KindOf(g, layout, layout.edges[i].source) \in kinds}}

TargetsOf(g, layout, n, kinds) ==
    {layout.edges[k].target :
        k \in {i \in DOMAIN layout.edges :
                  /\ layout.edges[i].source = n
                  /\ KindOf(g, layout, layout.edges[i].target) \in kinds}}

ComputeNodes(g, layout) ==
    {n \in NodesOf(g, layout) : KindOf(g, layout, n) \in ComputeKinds}

\* C21 as stated: in every per-VPC diagram each compute node has incoming
\* edges from at most 3 load balancers and outgoing edges to at most 2
\* database/cache targets, whatever the numbers of load balancers,
\* databases and caches.
C21_FanOutCapped ==
    lpc = "loaded" =>
        \A g \in DOMAIN layouts : \A r \in DOMAIN layouts[g] :
            \A n \in ComputeNodes(g, layouts[g][r]) :
                /\ Cardinality(SourcesOf(g, layouts[g][r], n, LoadBalancerKinds)) <= 3
                /\ Cardinality(TargetsOf(g, layouts[g][r], n,
                                         DatabaseKinds \cup CacheKinds)) <= 2

\* C21 amended: in every per-VPC diagram each compute node has outgoing
\* edges to at most 2 databases, at most 2 caches and at most 1 Redshift
\* cluster; in the diagrams of the detailed and the draw.io generator it has
\* incoming edges from at most 3 load balancers; in the diagram of the
\* overview generator every application and network load balancer has an
\* edge to every ECS and EKS cluster.
C21_FanOutCappedPerKind ==
    lpc = "loaded" =>
        \A g \in DOMAIN layouts : \A r \in DOMAIN layouts[g] :
            \A n \in ComputeNodes(g, layouts[g][r]) :
                /\ Cardinality(TargetsOf(g, layouts[g][r], n, DatabaseKinds)) <= 2
                /\ Cardinality(TargetsOf(g, layouts[g][r], n, CacheKinds)) <= 2
                /\ Cardinality(TargetsOf(g, layouts[g][r], n, {"redshift"})) <= 1
                /\ g # "overview" =>
                       Cardinality(SourcesOf(g, layouts[g][r], n, LoadBalancerKinds)) <= 3
                /\ (g = "overview" /\ KindOf(g, layouts[g][r], n) \in {"ecs", "eks"}) =>
                       SourcesOf(g, layouts[g][r], n, LoadBalancerKinds)
                           = {m \in NodesOf(g, layouts[g][r]) :
                                 KindOf(g, layouts[g][r], m) \in LoadBalancerKinds}

\* the three generators drew a VPC with MaxAlbs load balancers, an EKS
\* cluster and MaxStores data stores of every kind: the cluster has edges
\* from three load balancers, to two databases and to two caches in the
\* draw.io layout, and from all the load balancers in the overview
C21_Witness ==
    /\ lpc = "loaded"
    /\ layouts.overview # <<>> /\ layouts.detailed # <<>> /\ layouts.drawio # <<>>
    /\ Len(LayoutRd.load_balancers.application_load_balancers) = MaxAlbs
    /\ Len(LayoutRd.rds.instances) = MaxStores
    /\ \E n \in ComputeNodes("drawio", layouts.drawio[1]) :
          /\ KindOf("drawio", layouts.drawio[1], n) = "eks"
          /\ Cardinality(SourcesOf("drawio", layouts.drawio[1], n, LoadBalancerKinds)) = 3
          /\ Cardinality(TargetsOf("drawio", layouts.drawio[1], n, DatabaseKinds)) = 2
          /\ Cardinality(TargetsOf("drawio", layouts.drawio[1], n, CacheKinds)) = 2
    /\ \E n \in ComputeNodes("detailed", layouts.detailed[1]) :
          /\ KindOf("detailed", layouts.detailed[1], n) = "eks"
          /\ Cardinality(SourcesOf("detailed", layouts.detailed[1], n,
                                   LoadBalancerKinds)) = 3
          /\ Cardinality(TargetsOf("detailed", layouts.detailed[1], n, {"redshift"})) = 1
    /\ \E n \in ComputeNodes("overview", layouts.overview[1]) :
          Cardinality(SourcesOf("overview", layouts.overview[1], n,
                                LoadBalancerKinds)) = MaxAlbs


----------------------------------------------------------------------------
(* Properties of the coordinates of the draw.io layout                      *)

\* the cell with an id
CellOf(layout, id) ==
    layout.cells[CHOOSE k \in DOMAIN layout.cells : layout.cells[k].id = id]

\* the positions in the list of cells of the groups directly inside the VPC
\* group
VpcRows(layout) ==
    {k \in DOMAIN layout.cells :
        /\ layout.cells[k].style = "group"
        /\ layout.cells[k].parent = VpcGroupId(layout)}

\* the row of a group of the VPC, from the first part of its label
RowOf(cell) ==
    CASE cell.value[1] = "Gateways" -> 1
      [] cell.value[1] = "Load Balancers" -> 2
      [] cell.value[1] = "EKS" -> 3
      [] cell.value[1] = "ECS" -> 4
      [] cell.value[1] \in {"EC2 Standalone", "ECS Hosts"} -> 5
      [] cell.value[1] = "Elastic Beanstalk" -> 6
      [] cell.value[1] \in {"RDS / Aurora", "ElastiCache", "Redshift"} -> 7
      [] OTHER -> 0

\* the place of a group of the data layer in its row
ColumnOf(cell) ==
    CASE cell.value[1] = "RDS / Aurora" -> 1
      [] cell.value[1] = "ElastiCache" -> 2
      [] cell.value[1] = "Redshift" -> 3
      [] OTHER -> 0

\* the positions of the CloudFront groups
CloudFrontGroups(layout) ==
    {k \in DOMAIN layout.cells :
        /\ layout.cells[k].style = "group"
        /\ layout.cells[k].value = <<"Edge / CDN (CloudFront)">>}

\* C23: in the draw.io layout, for any numbers of resources, the CloudFront
\* group is above and outside the VPC group, and inside the VPC group the
\* rows start at strictly increasing vertical positions in the order
\* gateways, load balancers, EKS clusters, ECS clusters, EC2 standalone and
\* ECS host groups, Beanstalk environments, data layer, with the RDS, the
\* ElastiCache and the Redshift group on one row at strictly increasing
\* horizontal positions.
C23_RowsInOrder ==
    lpc = "loaded" =>
        \A r \in DOMAIN layouts.drawio :
            layouts.drawio[r].raised = "" =>
                LET layout == layouts.drawio[r]
                    vpc == CellOf(layout, VpcGroupId(layout))
                IN /\ \A k \in CloudFrontGroups(layout) :
                          /\ layout.cells[k].parent = 1 /\ vpc.parent = 1
                          /\ layout.cells[k].y + layout.cells[k].height <= vpc.y
                   /\ \A i \in VpcRows(layout) : RowOf(layout.cells[i]) # 0
                   /\ \A i, j \in VpcRows(layout) :
                          /\ RowOf(layout.cells[i]) < RowOf(layout.cells[j])
                                 => layout.cells[i].y < layout.cells[j].y
                          /\ RowOf(layout.cells[i]) = RowOf(layout.cells[j])
                                 => layout.cells[i].y = layout.cells[j].y
                          /\ (/\ ColumnOf(layout.cells[i]) # 0
                              /\ ColumnOf(layout.cells[i]) < ColumnOf(layout.cells[j]))
                                 => layout.cells[i].x < layout.cells[j].x

\* a draw.io layout with the CloudFront group, every one of the seven rows
\* and the three groups of the data layer
C23_Witness ==
    /\ lpc = "loaded" /\ layouts.drawio # <<>>
    /\ layouts.drawio[1].raised = ""
    /\ CloudFrontGroups(layouts.drawio[1]) # {}
    /\ {RowOf(layouts.drawio[1].cells[k]) : k \in VpcRows(layouts.drawio[1])} = 1..7
    /\ {ColumnOf(layouts.drawio[1].cells[k]) : k \in VpcRows(layouts.drawio[1])}
           = 0..3
    /\ \E k \in VpcRows(layouts.drawio[1]) :
          layouts.drawio[1].cells[k].value[1] = "ECS Hosts"
    /\ Len(LayoutRd.eks_clusters) = 2

\* C30: in the draw.io layout, for any numbers of resources, the rectangle
\* of every child cell lies inside the rectangle of its parent group, and
\* groups in different rows of the VPC do not overlap vertically.
C30_ChildrenInsideParents ==
    lpc = "loaded" =>
        \A r \in DOMAIN layouts.drawio :
            layouts.drawio[r].raised = "" =>
                LET layout == layouts.drawio[r]
                IN /\ \A k \in DOMAIN layout.cells :
                          layout.cells[k].parent # 1 =>
                              /\ layout.cells[k].x >= 0 /\ layout.cells[k].y >= 0
                              /\ layout.cells[k].x + layout.cells[k].width
                                     <= CellOf(layout, layout.cells[k].parent).width
                              /\ layout.cells[k].y + layout.cells[k].height
                                     <= CellOf(layout, layout.cells[k].parent).height
                   /\ \A i, j \in VpcRows(layout) :
                          RowOf(layout.cells[i]) < RowOf(layout.cells[j]) =>
                              layout.cells[i].y + layout.cells[i].height
                                  <= layout.cells[j].y

====
